---------------------------- MODULE Spec2Model ----------------------------
(***************************************************************************)
(* A model of the retrieval orchestrator of be/: the search service        *)
(* (services/search_service.py), the chat / settings / search routers that *)
(* call it, and the Redis session cache (helpers/redis_client.py).         *)
(*                                                                         *)
(* Python values are modelled as tagged records [t, v]; a dict is the      *)
(* sequence of its <<key, value>> items in insertion order.  The session   *)
(* cache holds JSON text, modelled as a sequence of tokens: set() writes   *)
(* json.dumps of the value, get() parses the text back.                    *)
(*                                                                         *)
(* State handles are secrets.token_hex(6) values.  The model takes the     *)
(* 48-bit random tokens to be nonces: the n-th token minted is TokenHex(n) *)
(* and a client cannot present a token that has not been minted yet, other *)
(* than the empty string and one token the generator never returns.        *)
(***************************************************************************)
EXTENDS Integers, Sequences, FiniteSets, TLC

(***************************************************************************)
(* Bounds of the model.                                                    *)
(***************************************************************************)
MaxHandles == 3      \* tokens _generate_state_id may return in one behaviour
MaxLen == 1          \* records in one backend answer
MaxPending == 1      \* requests suspended at a backend await at the same time

(***************************************************************************)
(* Python values.                                                          *)
(***************************************************************************)
PyNone == [t |-> "none", v |-> 0]
PyBool(b) == [t |-> "bool", v |-> b]
PyNum(n) == [t |-> "num", v |-> n]
PyStr(s) == [t |-> "str", v |-> s]
PyList(xs) == [t |-> "list", v |-> xs]
PyDict(items) == [t |-> "dict", v |-> items]

IsDict(d) == d.t = "dict"

\* key in d
Has(d, key) == IsDict(d) /\ \E i \in 1..Len(d.v) : d.v[i][1] = key

\* d[key], for a key the dict has
Get(d, key) == d.v[CHOOSE i \in 1..Len(d.v) : d.v[i][1] = key][2]

\* list(d.keys())
Keys(d) == [i \in 1..Len(d.v) |-> d.v[i][1]]

\* bool(x) of a Python value: None, False, 0, "", [] and {} are falsy
Truthy(x) ==
    CASE x.t = "none" -> FALSE
      [] x.t = "bool" -> x.v
      [] x.t = "num" -> x.v # 0
      [] x.t = "str" -> x.v # ""
      [] OTHER -> Len(x.v) > 0

(***************************************************************************)
(* JSON text: a sequence of tokens.                                        *)
(***************************************************************************)
Punct(c) == [t |-> "punct", v |-> c]
Lit(w) == [t |-> "lit", v |-> w]

RECURSIVE JsonDumps(_)
RECURSIVE DumpItems(_, _)
RECURSIVE DumpMembers(_, _)

\* the elements of a list from position i on, separated by commas
DumpItems(xs, i) ==
    IF i > Len(xs) THEN << >>
    ELSE (IF i > 1 THEN <<Punct(",")>> ELSE << >>)
         \o JsonDumps(xs[i]) \o DumpItems(xs, i + 1)

\* the members of a dict from position i on, in the dict's own order
DumpMembers(items, i) ==
    IF i > Len(items) THEN << >>
    ELSE (IF i > 1 THEN <<Punct(",")>> ELSE << >>)
         \o <<PyStr(items[i][1]), Punct(":")>>
         \o JsonDumps(items[i][2]) \o DumpMembers(items, i + 1)

\* json.dumps(value, default=str)
JsonDumps(x) ==
    CASE x.t = "none" -> <<Lit("null")>>
      [] x.t = "bool" -> <<Lit(IF x.v THEN "true" ELSE "false")>>
      [] x.t = "num" -> <<x>>
      [] x.t = "str" -> <<x>>
      [] x.t = "list" -> <<Punct("[")>> \o DumpItems(x.v, 1) \o <<Punct("]")>>
      [] x.t = "dict" -> <<Punct("{")>> \o DumpMembers(x.v, 1) \o <<Punct("}")>>

\* A parse result: the value read and the position after it; ok = FALSE is
\* json.JSONDecodeError.
ParseOk(val, nxt) == [ok |-> TRUE, val |-> val, nxt |-> nxt]
ParseFail == [ok |-> FALSE, val |-> PyNone, nxt |-> 0]

IsPunct(s, i, c) == i <= Len(s) /\ s[i] = Punct(c)

RECURSIVE ParseValue(_, _)
RECURSIVE ParseItems(_, _, _)
RECURSIVE ParseMembers(_, _, _)

\* the rest of a list whose elements read so far are acc; i is at an element
ParseItems(s, i, acc) ==
    LET e == ParseValue(s, i) IN
    IF ~e.ok THEN ParseFail
    ELSE IF IsPunct(s, e.nxt, ",") THEN ParseItems(s, e.nxt + 1, Append(acc, e.val))
    ELSE IF IsPunct(s, e.nxt, "]") THEN ParseOk(PyList(Append(acc, e.val)), e.nxt + 1)
    ELSE ParseFail

\* the rest of an object whose members read so far are acc; i is at a key
ParseMembers(s, i, acc) ==
    IF ~(i + 1 <= Len(s) /\ s[i].t = "str" /\ s[i + 1] = Punct(":")) THEN ParseFail
    ELSE LET e == ParseValue(s, i + 2)
             item == <<s[i].v, e.val>>
         IN IF ~e.ok THEN ParseFail
            ELSE IF IsPunct(s, e.nxt, ",") THEN ParseMembers(s, e.nxt + 1, Append(acc, item))
            ELSE IF IsPunct(s, e.nxt, "}") THEN ParseOk(PyDict(Append(acc, item)), e.nxt + 1)
            ELSE ParseFail

ParseValue(s, i) ==
    IF i > Len(s) THEN ParseFail
    ELSE CASE s[i].t = "num" -> ParseOk(s[i], i + 1)
           [] s[i].t = "str" -> ParseOk(s[i], i + 1)
           [] s[i].t = "lit" ->
                (CASE s[i].v = "null" -> ParseOk(PyNone, i + 1)
                   [] s[i].v = "true" -> ParseOk(PyBool(TRUE), i + 1)
                   [] s[i].v = "false" -> ParseOk(PyBool(FALSE), i + 1)
                   [] OTHER -> ParseFail)
           [] s[i] = Punct("[") ->
                IF IsPunct(s, i + 1, "]") THEN ParseOk(PyList(<< >>), i + 2)
                ELSE ParseItems(s, i + 1, << >>)
           [] s[i] = Punct("{") ->
                IF IsPunct(s, i + 1, "}") THEN ParseOk(PyDict(<< >>), i + 2)
                ELSE ParseMembers(s, i + 1, << >>)
           [] OTHER -> ParseFail

\* json.loads(text): the whole text must be one value
JsonLoads(s) ==
    LET e == ParseValue(s, 1) IN
    IF e.ok /\ e.nxt = Len(s) + 1 THEN e ELSE ParseFail

(***************************************************************************)
(* Results of Python calls that may raise.                                 *)
(***************************************************************************)
Ok(val) == [ok |-> TRUE, val |-> val, err |-> ""]
Raise(err) == [ok |-> FALSE, val |-> PyNone, err |-> err]

(***************************************************************************)
(* The keyframe corpus the backends index.  An id is "prefix/video/frame"; *)
(* SplitSlash is id.split("/") over the ids of the model, the last of      *)
(* which has no "/" in it.                                                 *)
(***************************************************************************)
KEYFRAMES_DIR == "keyframes"

Frames ==
    << [id |-> "L01/V1/f1", parts |-> <<"L01", "V1", "f1">>, url |-> "u/V1", time |-> 10],
       [id |-> "L01/V1/f2", parts |-> <<"L01", "V1", "f2">>, url |-> "u/V1", time |-> 30],
       [id |-> "L01/V2/f1", parts |-> <<"L01", "V2", "f1">>, url |-> "u/V2", time |-> 10],
       [id |-> "V3-f1", parts |-> <<"V3-f1">>, url |-> "u/V3", time |-> 10] >>

SplitSlash(id) == Frames[CHOOSE i \in 1..Len(Frames) : Frames[i].id = id].parts

\* d[key] = val: a new key goes last, an existing key keeps its place
DictSet(d, key, val) ==
    IF Has(d, key)
    THEN PyDict([i \in 1..Len(d.v) |-> IF d.v[i][1] = key THEN <<key, val>> ELSE d.v[i]])
    ELSE PyDict(Append(d.v, <<key, val>>))

RECURSIVE FormatFrom(_, _, _)
FormatFrom(results, i, result_dict) ==
    IF i > Len(results) THEN Ok(result_dict)
    ELSE LET result == results[i]
             parts == SplitSlash(result[1])
         IN IF Len(parts) # 3 THEN Raise("ValueError")
            ELSE FormatFrom(results, i + 1,
                    DictSet(result_dict, result[1],
                        PyDict(<< <<"score", PyNum(result[2])>>,
                                  <<"url", PyStr(result[3])>>,
                                  <<"path", PyStr(KEYFRAMES_DIR)>>,
                                  <<"video_id", PyStr(parts[2])>>,
                                  <<"frame_id", PyStr(parts[3])>>,
                                  <<"time_in_seconds", PyNum(result[4])>> >>)))

\* SearchService._format_milvus_result: results are (id, score, url, time) tuples
FormatMilvusResult(results) == FormatFrom(results, 1, PyDict(<< >>))

(***************************************************************************)
(* ClusterProjector: SearchService.process_results and its helpers.        *)
(***************************************************************************)
Mode_MOMENT == "moment"
Mode_VIDEO == "video"
Mode_VIDEO_AVG == "video_avg"
Mode_TEMPORAL == "temporal"
Modes == {Mode_MOMENT, Mode_VIDEO, Mode_VIDEO_AVG, Mode_TEMPORAL}

Image(id, path, time, score) ==
    [id |-> id, path |-> path, name |-> id, time_in_seconds |-> time, score |-> score]

Cluster(mode, name, images, url) ==
    [mode |-> mode, cluster_name |-> name, image_list |-> images, url |-> url]

HasAll(d, keys) == IsDict(d) /\ \A k \in keys : Has(d, k)

MetadataKeys == {"path", "time_in_seconds", "score", "video_id", "url"}

\* moment clusters named by the id of their image
CreateMomentClusters_ById(result_dict) ==
    IF \E i \in 1..Len(result_dict.v) : ~HasAll(result_dict.v[i][2], MetadataKeys)
    THEN Raise("KeyError")
    ELSE Ok([i \in 1..Len(result_dict.v) |->
              LET id == result_dict.v[i][1]
                  metadata == result_dict.v[i][2]
              IN Cluster(Mode_MOMENT, id,
                         <<Image(id, Get(metadata, "path").v,
                                 Get(metadata, "time_in_seconds").v,
                                 Get(metadata, "score").v)>>,
                         Get(metadata, "url").v)])

\* SearchService._create_moment_clusters
CreateMomentClusters(result_dict) ==
    IF \E i \in 1..Len(result_dict.v) : ~HasAll(result_dict.v[i][2], MetadataKeys)
    THEN Raise("KeyError")
    ELSE Ok([i \in 1..Len(result_dict.v) |->
              LET id == result_dict.v[i][1]
                  metadata == result_dict.v[i][2]
              IN Cluster(Mode_MOMENT, Get(metadata, "video_id").v,
                         <<Image(id, Get(metadata, "path").v,
                                 Get(metadata, "time_in_seconds").v,
                                 Get(metadata, "score").v)>>,
                         Get(metadata, "url").v)])

\* video groups that put a new image of a video before its earlier ones
RECURSIVE VideoGroups_Newest(_, _, _)
VideoGroups_Newest(items, i, groups) ==
    IF i > Len(items) THEN groups
    ELSE LET id == items[i][1]
             metadata == items[i][2]
             video_id == Get(metadata, "video_id").v
             image == Image(id, Get(metadata, "path").v,
                            Get(metadata, "time_in_seconds").v,
                            Get(metadata, "score").v)
         IN IF \E g \in 1..Len(groups) : groups[g].video_id = video_id
            THEN VideoGroups_Newest(items, i + 1,
                    [g \in 1..Len(groups) |->
                        IF groups[g].video_id = video_id
                        THEN [groups[g] EXCEPT !.images = <<image>> \o @]
                        ELSE groups[g]])
            ELSE VideoGroups_Newest(items, i + 1,
                    Append(groups, [video_id |-> video_id, images |-> <<image>>,
                                    url |-> Get(metadata, "url").v]))

\* video groups that put a record of a video seen before into the first group
RECURSIVE VideoGroups_IntoFirst(_, _, _)
VideoGroups_IntoFirst(items, i, groups) ==
    IF i > Len(items) THEN groups
    ELSE LET id == items[i][1]
             metadata == items[i][2]
             video_id == Get(metadata, "video_id").v
             image == Image(id, Get(metadata, "path").v,
                            Get(metadata, "time_in_seconds").v,
                            Get(metadata, "score").v)
         IN IF groups # << >>
            THEN VideoGroups_IntoFirst(items, i + 1,
                    [groups EXCEPT ![1].images = Append(@, image)])
            ELSE VideoGroups_IntoFirst(items, i + 1,
                    Append(groups, [video_id |-> video_id, images |-> <<image>>,
                                    url |-> Get(metadata, "url").v]))

\* video_groups after the records from position i on have been added
RECURSIVE VideoGroups(_, _, _)
VideoGroups(items, i, groups) ==
    IF i > Len(items) THEN groups
    ELSE LET id == items[i][1]
             metadata == items[i][2]
             video_id == Get(metadata, "video_id").v
             image == Image(id, Get(metadata, "path").v,
                            Get(metadata, "time_in_seconds").v,
                            Get(metadata, "score").v)
         IN IF \E g \in 1..Len(groups) : groups[g].video_id = video_id
            THEN VideoGroups(items, i + 1,
                    [g \in 1..Len(groups) |->
                        IF groups[g].video_id = video_id
                        THEN [groups[g] EXCEPT !.images = Append(@, image)]
                        ELSE groups[g]])
            ELSE VideoGroups(items, i + 1,
                    Append(groups, [video_id |-> video_id, images |-> <<image>>,
                                    url |-> Get(metadata, "url").v]))

RECURSIVE SumScores(_, _)
SumScores(images, i) ==
    IF i > Len(images) THEN 0 ELSE images[i].score + SumScores(images, i + 1)

\* mean(a) > mean(b), the means being sum / len
MeanGreater(a, b) ==
    SumScores(a.images, 1) * Len(b.images) > SumScores(b.images, 1) * Len(a.images)

\* a sort that puts g before the groups already placed whose mean is equal
InsertByMean_Front(sorted, g) ==
    LET before == {j \in 1..Len(sorted) : MeanGreater(sorted[j], g)}
        k == IF before = {} THEN 0 ELSE CHOOSE j \in before : \A m \in before : m <= j
    IN SubSeq(sorted, 1, k) \o <<g>> \o SubSeq(sorted, k + 1, Len(sorted))

\* sorted(..., reverse=True), which is stable: g goes behind every group
\* already placed whose mean is not smaller
InsertByMean(sorted, g) ==
    LET before == {j \in 1..Len(sorted) : ~MeanGreater(g, sorted[j])}
        k == IF before = {} THEN 0 ELSE CHOOSE j \in before : \A m \in before : m <= j
    IN SubSeq(sorted, 1, k) \o <<g>> \o SubSeq(sorted, k + 1, Len(sorted))

RECURSIVE SortByMean(_, _, _)
SortByMean(groups, i, sorted) ==
    IF i > Len(groups) THEN sorted
    ELSE SortByMean(groups, i + 1, InsertByMean(sorted, groups[i]))

\* SearchService._create_video_clusters
CreateVideoClusters(result_dict, mode) ==
    IF \E i \in 1..Len(result_dict.v) : ~HasAll(result_dict.v[i][2], MetadataKeys)
    THEN Raise("KeyError")
    ELSE LET video_groups == VideoGroups(result_dict.v, 1, << >>)
             ordered == IF mode = Mode_VIDEO THEN video_groups
                        ELSE SortByMean(video_groups, 1, << >>)
         IN Ok([g \in 1..Len(ordered) |->
                  Cluster(mode, ordered[g].video_id, ordered[g].images, ordered[g].url)])

EventKeys == {"id", "time_in_seconds"}

\* an image that carries the score of its own event
EventImage_OwnScore(event, score) ==
    Image(Get(event, "id").v, KEYFRAMES_DIR, Get(event, "time_in_seconds").v,
          Get(event, "score").v)

EventImage(event, score) ==
    Image(Get(event, "id").v, KEYFRAMES_DIR, Get(event, "time_in_seconds").v, score)

\* what one record of a temporal result must hold for _create_temporal_clusters
TemporalShape(id, result) ==
    /\ Len(SplitSlash(id)) = 3
    /\ HasAll(result, {"now", "score", "before", "after"})
    /\ HasAll(Get(result, "now"), EventKeys \cup {"url"})
    /\ Truthy(Get(result, "before")) => HasAll(Get(result, "before"), EventKeys)
    /\ Truthy(Get(result, "after")) => HasAll(Get(result, "after"), EventKeys)

\* SearchService._create_temporal_clusters
CreateTemporalClusters(result_dict) ==
    IF \E i \in 1..Len(result_dict.v) :
          ~TemporalShape(result_dict.v[i][1], result_dict.v[i][2])
    THEN Raise("KeyError")
    ELSE Ok([i \in 1..Len(result_dict.v) |->
              LET id == result_dict.v[i][1]
                  result == result_dict.v[i][2]
                  score == Get(result, "score").v
              IN Cluster(Mode_VIDEO, id,
                         <<EventImage(Get(result, "now"), score)>>
                         \o (IF Truthy(Get(result, "before"))
                             THEN <<EventImage(Get(result, "before"), score)>> ELSE << >>)
                         \o (IF Truthy(Get(result, "after"))
                             THEN <<EventImage(Get(result, "after"), score)>> ELSE << >>),
                         Get(Get(result, "now"), "url").v)])

\* a projection that the mode decides
ProcessResults_ByMode(result_dict, mode, temporal) ==
    IF ~Truthy(result_dict) THEN Ok(<< >>)
    ELSE IF mode = Mode_TEMPORAL THEN CreateTemporalClusters(result_dict)
    ELSE IF mode = Mode_MOMENT THEN CreateMomentClusters(result_dict)
    ELSE CreateVideoClusters(result_dict, mode)

\* SearchService.process_results
ProcessResults(result_dict, mode, temporal) ==
    IF ~Truthy(result_dict) THEN Ok(<< >>)
    ELSE IF temporal THEN CreateTemporalClusters(result_dict)
    ELSE IF mode = Mode_MOMENT THEN CreateMomentClusters(result_dict)
    ELSE CreateVideoClusters(result_dict, mode)

(***************************************************************************)
(* FusionEngine: helpers/fusion.py, RRFFusion.                             *)
(*                                                                         *)
(* Scores are reals in the code.  The model holds a score as the integer   *)
(* score * ScoreUnit, where ScoreUnit is a multiple of 10 and of every     *)
(* k + rank + 1 that can occur, so that 1 / (k + rank + 1) and the blend   *)
(* with alpha, a number of tenths, are exact.                              *)
(***************************************************************************)
DefaultK == 60
DefaultAlphaTenths == 1

RECURSIVE RankProduct(_, _)
RankProduct(k, n) == IF n = 0 THEN 1 ELSE (k + n) * RankProduct(k, n - 1)

ScoreUnit == 10 * RankProduct(DefaultK, MaxLen + 1)

\* the 0-based position of doc_id among the keys of result_dict
RankOf(result_dict, doc_id) ==
    (CHOOSE i \in 1..Len(result_dict.v) : result_dict.v[i][1] = doc_id) - 1

\* a rank fusion that counts the ranks of a set from its end
RECURSIVE ReciprocalRankFusion_FromEnd(_, _, _, _)
ReciprocalRankFusion_FromEnd(results, i, doc_id, k) ==
    IF i > Len(results) THEN 0
    ELSE (IF Has(results[i], doc_id)
          THEN ScoreUnit \div (k + Len(results[i].v) - RankOf(results[i], doc_id))
          ELSE 0)
         + ReciprocalRankFusion_FromEnd(results, i + 1, doc_id, k)

\* RRFFusion.reciprocal_rank_fusion, the entry of doc_id
RECURSIVE ReciprocalRankFusion(_, _, _, _)
ReciprocalRankFusion(results, i, doc_id, k) ==
    IF i > Len(results) THEN 0
    ELSE (IF Has(results[i], doc_id)
          THEN ScoreUnit \div (k + RankOf(results[i], doc_id) + 1) ELSE 0)
         + ReciprocalRankFusion(results, i + 1, doc_id, k)

\* result.get("score", 0.0)
ScoreOrZero(result) == IF Has(result, "score") THEN Get(result, "score").v ELSE 0

RECURSIVE SumOfScores(_, _, _)
SumOfScores(results, i, doc_id) ==
    IF i > Len(results) THEN 0
    ELSE (IF Has(results[i], doc_id) THEN ScoreOrZero(Get(results[i], doc_id)) ELSE 0)
         + SumOfScores(results, i + 1, doc_id)

CountOfSets(results, doc_id) ==
    Cardinality({i \in 1..Len(results) : Has(results[i], doc_id)})

\* a CombMNZ score that forgets the number of sets
CombMnzFusion_Sum(results, doc_id) == SumOfScores(results, 1, doc_id)

\* RRFFusion.comb_mnz_fusion, the entry of doc_id
CombMnzFusion(results, doc_id) ==
    SumOfScores(results, 1, doc_id) * CountOfSets(results, doc_id)

\* final scores that add the two scores up, whatever alpha is
CalcFinalScore_Unweighted(results, doc_id, k, alphaTenths) ==
    ReciprocalRankFusion(results, 1, doc_id, k) + CombMnzFusion(results, doc_id)

\* final scores with alpha on the CombMNZ score and 1 - alpha on the RRF score
CalcFinalScore_Swapped(results, doc_id, k, alphaTenths) ==
    ((10 - alphaTenths) * ReciprocalRankFusion(results, 1, doc_id, k)
     + alphaTenths * CombMnzFusion(results, doc_id)) \div 10

\* RRFFusion.calc_final_scores, the entry of doc_id
CalcFinalScore(results, doc_id, k, alphaTenths) ==
    (alphaTenths * ReciprocalRankFusion(results, 1, doc_id, k)
     + (10 - alphaTenths) * CombMnzFusion(results, doc_id)) \div 10

\* merged.update(d)
RECURSIVE DictUpdate(_, _, _)
DictUpdate(merged, d, i) ==
    IF i > Len(d.v) THEN merged
    ELSE DictUpdate(DictSet(merged, d.v[i][1], d.v[i][2]), d, i + 1)

\* a merge that keeps the record of the first set that has the id
RECURSIVE MergeResults_First(_, _, _)
MergeResults_First(results, i, merged) ==
    IF i > Len(results) THEN merged
    ELSE DictUpdate(MergeResults_First(results, i + 1, merged), results[i], 1)

\* RRFFusion.merge_results
RECURSIVE MergeResults(_, _, _)
MergeResults(results, i, merged) ==
    IF i > Len(results) THEN merged
    ELSE MergeResults(results, i + 1, DictUpdate(merged, results[i], 1))

\* sorted(items, key=score, reverse=True), which is stable
InsertByScore(sorted, item) ==
    LET before == {j \in 1..Len(sorted) :
                      ScoreOrZero(sorted[j][2]) >= ScoreOrZero(item[2])}
        k == IF before = {} THEN 0 ELSE CHOOSE j \in before : \A m \in before : m <= j
    IN SubSeq(sorted, 1, k) \o <<item>> \o SubSeq(sorted, k + 1, Len(sorted))

RECURSIVE SortByScore(_, _, _)
SortByScore(items, i, sorted) ==
    IF i > Len(items) THEN sorted
    ELSE SortByScore(items, i + 1, InsertByScore(sorted, items[i]))

\* RRFFusion.fuse.  A member that is a list, not a dict, has no keys():
\* AttributeError.
Fuse(results, k, alphaTenths) ==
    IF Len(results) = 0 THEN Ok(PyDict(<< >>))
    ELSE IF \E i \in 1..Len(results) : ~IsDict(results[i]) THEN Raise("AttributeError")
    ELSE LET merged_results == MergeResults(results, 1, PyDict(<< >>))
             scored == [i \in 1..Len(merged_results.v) |->
                          <<merged_results.v[i][1],
                            DictSet(merged_results.v[i][2], "score",
                                    PyNum(CalcFinalScore(results, merged_results.v[i][1],
                                                         k, alphaTenths)))>>]
         IN Ok(PyDict(SortByScore(scored, 1, << >>)))

\* a merge that keeps every record of an id, not only the last
Retained_Every(results, j, doc_id) == TRUE

\* merged_results holds for doc_id the record of set j: update puts the
\* record of a later set that has the id in its place
Retained(results, j, doc_id) ==
    \A later \in (j + 1)..Len(results) : ~Has(results[later], doc_id)

\* the result sets as the caller of fuse has them after the call:
\* merged_results holds the records of the sets, not copies, so
\* merged_results[doc_id]["score"] = score writes into the record that the
\* set has
FusedInPlace(results, k, alphaTenths) ==
    IF Len(results) = 0 \/ \E j \in 1..Len(results) : ~IsDict(results[j]) THEN results
    ELSE [j \in 1..Len(results) |->
            PyDict([i \in 1..Len(results[j].v) |->
                      LET doc_id == results[j].v[i][1]
                      IN IF Retained(results, j, doc_id)
                         THEN <<doc_id,
                                DictSet(results[j].v[i][2], "score",
                                        PyNum(CalcFinalScore(results, doc_id, k,
                                                             alphaTenths)))>>
                         ELSE results[j].v[i]])]

(***************************************************************************)
(* The session cache: helpers/redis_client.py.  store is the Redis         *)
(* keyspace, a function from the keys present to their text; up says       *)
(* whether this call reaches the server (the client is connected and the   *)
(* command raises no RedisError).                                          *)
(***************************************************************************)
\* a set that reports a failure after the server has taken the value
RedisSet_Late(store, up, key, value) ==
    [ok |-> up,
     store |-> [k \in DOMAIN store \cup {key} |->
                  IF k = key THEN JsonDumps(value) ELSE store[k]]]

\* RedisClient.set: [ok, store], ok being the bool it returns
RedisSet(store, up, key, value) ==
    IF ~up THEN [ok |-> FALSE, store |-> store]
    ELSE LET text == IF value.t = "str" THEN <<Lit(value.v)>> ELSE JsonDumps(value)
         IN [ok |-> TRUE,
             store |-> [k \in DOMAIN store \cup {key} |->
                          IF k = key THEN text ELSE store[k]]]

\* a get that returns the text as it is stored, without json.loads
RedisGet_Text(store, up, key) ==
    IF ~up \/ key \notin DOMAIN store THEN PyNone ELSE PyStr(store[key][1].v)

\* RedisClient.get: None, the value parsed from the JSON text or, if the
\* text is no JSON, the text itself
RedisGet(store, up, key) ==
    IF ~up \/ key \notin DOMAIN store THEN PyNone
    ELSE LET e == JsonLoads(store[key])
         IN IF e.ok THEN e.val ELSE PyStr(store[key][1].v)

\* SearchService.cache_result
CacheResult(store, up, state_id, results) ==
    RedisSet(store, up, "search_" \o state_id, results)

\* SearchService.get_cached_result
GetCachedResult(store, up, state_id) ==
    RedisGet(store, up, "search_" \o state_id)

(***************************************************************************)
(* Responses.  A router turns every exception of its handler into an       *)
(* HTTPException with status code 500.                                     *)
(***************************************************************************)
GeneralResponse(mode, state_id, clusters, translated_texts) ==
    [status |-> "success", detail |-> "", mode |-> mode, state_id |-> state_id,
     results |-> clusters, translated_texts |-> translated_texts]

HTTPException(detail) ==
    [status |-> "error", detail |-> detail, mode |-> "", state_id |-> "",
     results |-> << >>, translated_texts |-> << >>]

\* what a handler that did not call cache_result gives back: its response
\* and the keyspace, which it leaves as it was
Outcome(resp, store) ==
    [resp |-> resp, store |-> store, cached |-> FALSE, written |-> FALSE,
     translation |-> "none"]

\* what a handler that called cache_result gives back, set being what
\* RedisClient.set did: written is the bool it returned, which cache_result
\* passes on and every caller drops
Cached(resp, set) ==
    [resp |-> resp, store |-> set.store, cached |-> TRUE, written |-> set.ok,
     translation |-> "none"]

(***************************************************************************)
(* The backends.  A Milvus answer is a list of (id, score, url, time)      *)
(* tuples; an Elastic answer is a list of hits with the same data.  A      *)
(* request ends in an answer or in APIRequestError.                        *)
(***************************************************************************)
ENSEMBLE_COLLECTIONS == <<"clip", "siglip">>
Collections == {"clip", "ensemble"}

Hit(i) == <<Frames[i].id, ScoreUnit, Frames[i].url, Frames[i].time>>

\* the frames a backend answer of the model may hold
AnswerFrames == {1, 4}

Answers(frames) ==
    {<< >>} \cup
    UNION {{a \in [1..n -> frames] : \A i, j \in 1..n : a[i] = a[j] => i = j}
           : n \in 1..MaxLen}

Hits(a) == [i \in 1..Len(a) |-> Hit(a[i])]

ApiError == [kind |-> "api_error", hits |-> << >>]
Answer(hits) == [kind |-> "ok", hits |-> hits]

MilvusOutcomes == {ApiError} \cup {Answer(Hits(a)) : a \in Answers(AnswerFrames)}

\* the index of the frame with this id
FrameOf(id) == CHOOSE i \in 1..Len(Frames) : Frames[i].id = id

\* The lexical backend searches the ids it is given, or the whole corpus
\* when it is given none.
ElasticOutcomes(ids) ==
    {ApiError} \cup
    {Answer(Hits(a)) :
        a \in Answers(IF Len(ids) > 0 THEN {FrameOf(ids[i]) : i \in 1..Len(ids)}
                      ELSE AnswerFrames)}

(***************************************************************************)
(* One backend sub-query of SearchService, given how its request ended.    *)
(***************************************************************************)
EmptyDict == PyDict(<< >>)

\* a sub-query that answers every failure, the APIRequestError too, with
\* the empty dict
TextSearchOne_Swallowing(o) ==
    LET f == FormatMilvusResult(o.hits) IN
    IF o.kind = "api_error" \/ ~f.ok THEN Ok(EmptyDict) ELSE f

\* SearchService._text_search: an APIRequestError is re-raised, any other
\* exception (a malformed id in _format_milvus_result) gives the empty dict
TextSearchOne(o) ==
    IF o.kind = "api_error" THEN Raise("APIRequestError")
    ELSE LET f == FormatMilvusResult(o.hits) IN IF f.ok THEN f ELSE Ok(EmptyDict)

\* SearchService._visual_search: without a text and without an image it
\* returns the empty list and sends no request
VisualSearchOne(hasQuery, o) ==
    IF ~hasQuery THEN Ok(PyList(<< >>)) ELSE TextSearchOne(o)

\* SearchService._single_relevance_feedback: the answer is formatted
\* outside the try block
SingleRelevanceFeedback(o) ==
    IF o.kind = "api_error" THEN Raise("APIRequestError")
    ELSE IF Len(o.hits) = 0 THEN Ok(EmptyDict)
    ELSE FormatMilvusResult(o.hits)

\* the ids SearchService.apply_filters restricts the lexical query to
FilterIds(current_result_dict) ==
    IF Len(current_result_dict.v) > 0 THEN Keys(current_result_dict) ELSE << >>

\* a filter that forgets the scores of the prior result set
PriorScore_Forgotten(current_result_dict, id) == 0

\* current_result_dict.get(id, {}).get("score", 0)
PriorScore(current_result_dict, id) ==
    IF Has(current_result_dict, id) /\ Has(Get(current_result_dict, id), "score")
    THEN Get(Get(current_result_dict, id), "score").v ELSE 0

RECURSIVE FilterFrom(_, _, _, _)
FilterFrom(elastic_results, i, current_result_dict, result_dict) ==
    IF i > Len(elastic_results) THEN Ok(result_dict)
    ELSE LET result == elastic_results[i]
             parts == SplitSlash(result[1])
         IN IF Len(parts) # 3 THEN Raise("ValueError")
            ELSE IF ~IsDict(current_result_dict) THEN Raise("AttributeError")
            ELSE FilterFrom(elastic_results, i + 1, current_result_dict,
                    DictSet(result_dict, result[1],
                        PyDict(<< <<"video_id", PyStr(parts[2])>>,
                                  <<"frame_id", PyStr(parts[3])>>,
                                  <<"path", PyStr(KEYFRAMES_DIR)>>,
                                  <<"url", PyStr(result[3])>>,
                                  <<"time_in_seconds", PyNum(result[4])>>,
                                  <<"score", PyNum(result[2]
                                        + PriorScore(current_result_dict, result[1]))>> >>)))

\* a filter that lets the failure of its lexical request through
ApplyFilters_Raising(current_result_dict, eo) ==
    IF eo.kind = "api_error" THEN Raise("APIRequestError")
    ELSE FilterFrom(eo.hits, 1, current_result_dict, EmptyDict)

\* SearchService.apply_filters, eo being how the lexical request ended
ApplyFilters(current_result_dict, eo) ==
    IF eo.kind = "api_error" THEN Ok(EmptyDict)
    ELSE FilterFrom(eo.hits, 1, current_result_dict, EmptyDict)

(***************************************************************************)
(* TemporalCorrelator: the loop of SearchService.visual_temporal_search.   *)
(***************************************************************************)
\* a window that takes a candidate on either side of the now record
InWindow_EitherSide(now_id, now_result, id, result, sign, time_interval) ==
    LET d == Get(now_result, "time_in_seconds").v - Get(result, "time_in_seconds").v
    IN /\ SplitSlash(id)[2] = SplitSlash(now_id)[2]
       /\ -time_interval <= d /\ d <= time_interval

\* the now record and a candidate: same video, and the candidate lies
\* within time_interval before (sign = 1) or after (sign = -1) it
InWindow(now_id, now_result, id, result, sign, time_interval) ==
    LET d == sign * (Get(now_result, "time_in_seconds").v
                     - Get(result, "time_in_seconds").v)
    IN SplitSlash(id)[2] = SplitSlash(now_id)[2] /\ 0 <= d /\ d <= time_interval

\* the position of the selected candidate, 0 for none: the scan keeps a
\* candidate whose score is above the best so far, which starts at 0
RECURSIVE SelectFrom(_, _, _, _, _, _, _, _)
SelectFrom(items, i, now_id, now_result, sign, time_interval, selected, max_score) ==
    IF i > Len(items) THEN selected
    ELSE IF /\ InWindow(now_id, now_result, items[i][1], items[i][2], sign, time_interval)
            /\ Get(items[i][2], "score").v > max_score
         THEN SelectFrom(items, i + 1, now_id, now_result, sign, time_interval,
                         i, Get(items[i][2], "score").v)
         ELSE SelectFrom(items, i + 1, now_id, now_result, sign, time_interval,
                         selected, max_score)

EventRecord(id, result) ==
    PyDict(<< <<"id", PyStr(id)>>,
              <<"time_in_seconds", Get(result, "time_in_seconds")>>,
              <<"score", Get(result, "score")>>,
              <<"url", Get(result, "url")>> >>)

\* a temporal record whose score leaves the after record out
TemporalRecord_BeforeOnly(now_id, now_result, before_items, after_items, time_interval) ==
    LET b == SelectFrom(before_items, 1, now_id, now_result, 1, time_interval, 0, 0)
        a == SelectFrom(after_items, 1, now_id, now_result, -1, time_interval, 0, 0)
        combined_score ==
            Get(now_result, "score").v
            + (IF b > 0 THEN Get(before_items[b][2], "score").v ELSE 0)
    IN PyDict(<< <<"now", EventRecord(now_id, now_result)>>,
                 <<"before", IF b > 0 THEN EventRecord(before_items[b][1], before_items[b][2])
                             ELSE PyNone>>,
                 <<"after", IF a > 0 THEN EventRecord(after_items[a][1], after_items[a][2])
                            ELSE PyNone>>,
                 <<"score", PyNum(combined_score)>> >>)

TemporalRecord(now_id, now_result, before_items, after_items, time_interval) ==
    LET b == SelectFrom(before_items, 1, now_id, now_result, 1, time_interval, 0, 0)
        a == SelectFrom(after_items, 1, now_id, now_result, -1, time_interval, 0, 0)
        combined_score ==
            Get(now_result, "score").v
            + (IF b > 0 THEN Get(before_items[b][2], "score").v ELSE 0)
            + (IF a > 0 THEN Get(after_items[a][2], "score").v ELSE 0)
    IN PyDict(<< <<"now", EventRecord(now_id, now_result)>>,
                 <<"before", IF b > 0 THEN EventRecord(before_items[b][1], before_items[b][2])
                             ELSE PyNone>>,
                 <<"after", IF a > 0 THEN EventRecord(after_items[a][1], after_items[a][2])
                            ELSE PyNone>>,
                 <<"score", PyNum(combined_score)>> >>)

\* sorted_result_dict.  A sub-search result that is a list has no items():
\* AttributeError.
Correlate(now_result_dict, before_result_dict, after_result_dict, time_interval) ==
    IF \/ ~IsDict(now_result_dict)
       \/ /\ Len(now_result_dict.v) > 0
          /\ ~(IsDict(before_result_dict) /\ IsDict(after_result_dict))
    THEN Raise("AttributeError")
    ELSE LET final == [i \in 1..Len(now_result_dict.v) |->
                         <<now_result_dict.v[i][1],
                           TemporalRecord(now_result_dict.v[i][1], now_result_dict.v[i][2],
                                          before_result_dict.v, after_result_dict.v,
                                          time_interval)>>]
         IN Ok(PyDict(SortByScore(final, 1, << >>)))

(***************************************************************************)
(* The state of the system.                                                *)
(***************************************************************************)
VARIABLES
    redis,      \* the Redis keyspace: key |-> JSON text, for the keys present
    minted,     \* how many tokens _generate_state_id has returned
    pending,    \* the requests suspended at their backend awaits, with their locals
    last,       \* the request that ended in the last step, if one did
    used,       \* the keys ever written
    rewrites,   \* the keys written again, changed or deleted by a request
    call        \* one call looked at from the inside: its sub-queries, or the
                \* arguments and the value of a function of helpers/fusion.py

vars == <<redis, minted, pending, last, used, rewrites, call>>

TokenTable ==
    <<"0x00000000000a", "0x00000000000b", "0x00000000000c", "0x00000000000d",
      "0x00000000000e", "0x00000000000f">>

\* a generator that returns one token again and again: what a collision of
\* two tokens would do
GenerateStateId_Colliding(n) == TokenTable[1]

\* SearchService._generate_state_id, the n-th call of it
GenerateStateId(n) == TokenTable[n]

\* a well-formed token the generator never returns
UnknownStateId == "0xffffffffffff"

\* the handles a client can present: none, an unknown one, a minted one
StateIds == {"", UnknownStateId} \cup {GenerateStateId(n) : n \in 1..minted}

\* a suspended request: the operation, the handle it looked up and the
\* cached state it read before the await, and the tokens it has minted so far
Call(op, state_id, cached, tokens) ==
    [op |-> op, state_id |-> state_id, cached |-> cached, tokens |-> tokens]

Remove(seq, i) == SubSeq(seq, 1, i - 1) \o SubSeq(seq, i + 1, Len(seq))

\* the strings of a Python list of strings
Strings(list) == [i \in 1..Len(list.v) |-> list.v[i].v]

\* no call is looked at from the inside
NoCall == [op |-> "none"]

NoRequest ==
    [op |-> "none", state_id |-> "", read |-> PyNone, resp |-> HTTPException(""),
     tokens |-> << >>, queries |-> 0, cached |-> FALSE, written |-> FALSE,
     added |-> {}, intact |-> TRUE,
     stored |-> PyNone, result |-> PyNone, translation |-> "none"]

\* a service that has answered nothing yet
Fresh ==
    /\ redis = << >>
    /\ minted = 0
    /\ pending = << >>
    /\ last = NoRequest
    /\ used = {}
    /\ rewrites = {}

Init == Fresh /\ call = NoCall

\* A request ends: the keyspace becomes out.store and the request is recorded
\* with the handle it was given, what its cache lookup returned (None if it
\* made none), its response, the tokens it minted, the
\* backend requests it sent, the state it handed to cache_result (if it
\* called it), the result_dict a search got from its backends and how its
\* calls of _translate_text went ("none" if it made none).  last
\* holds that record until the response has gone out.
Complete(op, state_id, read, out, value, result, tokens, queries) ==
    LET written == {k \in DOMAIN out.store :
                       k \notin DOMAIN redis \/ out.store[k] # redis[k]}
        deleted == DOMAIN redis \ DOMAIN out.store
    IN /\ last = NoRequest
       /\ redis' = out.store
       /\ used' = used \cup written
       /\ rewrites' = rewrites \cup (written \cap used) \cup deleted
       /\ last' = [op |-> op, state_id |-> state_id, read |-> read, resp |-> out.resp,
                   tokens |-> tokens, queries |-> queries, cached |-> out.cached,
                   written |-> out.written,
                   added |-> DOMAIN out.store \ DOMAIN redis,
                   intact |-> \A k \in DOMAIN redis :
                                 k \in DOMAIN out.store /\ out.store[k] = redis[k],
                   stored |-> IF out.cached THEN value ELSE PyNone,
                   result |-> result,
                   translation |-> out.translation]

\* the response of the request that ended goes out, and the next step is
\* taken from there
Respond ==
    /\ last # NoRequest
    /\ last' = NoRequest
    /\ UNCHANGED <<redis, minted, pending, used, rewrites>>

\* the request fails with an exception and leaves the cache alone
Failed(err) == Outcome(HTTPException(err), redis)

(***************************************************************************)
(* routers/chat.py restore_chat and routers/settings.py change_cluster:    *)
(* no await between their cache calls.                                     *)
(***************************************************************************)
\* restore_chat
RestoreChat(store, up, state_id, mode) ==
    LET cached_result == GetCachedResult(store, up, state_id) IN
    IF Truthy(cached_result)
    THEN IF ~HasAll(cached_result, {"results", "temporal"})
         THEN Outcome(HTTPException("KeyError"), store)
         ELSE LET clusters == ProcessResults(Get(cached_result, "results"), mode,
                                             Truthy(Get(cached_result, "temporal")))
              IN IF clusters.ok
                 THEN Outcome(GeneralResponse(mode, state_id, clusters.val, << >>),
                              store)
                 ELSE Outcome(HTTPException(clusters.err), store)
    ELSE Outcome(GeneralResponse(mode, state_id, << >>, << >>), store)

\* a change_clustering_mode without the checks of its state_id, which takes
\* a missing state for an empty one
ChangeClusteringMode_Unchecked(store, upGet, upSet, state_id, new_mode, new_state_id) ==
    Cached(GeneralResponse(new_mode, new_state_id, << >>, << >>),
           CacheResult(store, upSet, new_state_id,
                       PyDict(<< <<"temporal", PyBool(FALSE)>>,
                                 <<"results", PyDict(<< >>)>> >>)))

\* SearchService.change_clustering_mode and change_cluster; new_state_id is
\* the token the call mints if it gets that far
ChangeClusteringMode(store, upGet, upSet, state_id, new_mode, new_state_id) ==
    IF state_id = "" THEN Outcome(HTTPException("ValueError"), store)
    ELSE LET cached_results == GetCachedResult(store, upGet, state_id) IN
         IF cached_results = PyNone
         THEN Outcome(HTTPException("ValueError"), store)
         ELSE IF ~HasAll(cached_results, {"results", "temporal"})
         THEN Outcome(HTTPException("KeyError"), store)
         ELSE LET clusters == ProcessResults(Get(cached_results, "results"), new_mode,
                                             Truthy(Get(cached_results, "temporal")))
              IN IF ~clusters.ok THEN Outcome(HTTPException(clusters.err), store)
                 ELSE Cached(GeneralResponse(new_mode, new_state_id, clusters.val, << >>),
                             CacheResult(store, upSet, new_state_id, cached_results))

Restore(state_id, mode, up) ==
    /\ last = NoRequest
    /\ Complete("restore", state_id, GetCachedResult(redis, up, state_id),
                RestoreChat(redis, up, state_id, mode),
                PyNone, PyNone, << >>, 0)
    /\ UNCHANGED <<minted, pending>>

ChangeCluster(state_id, mode, upGet, upSet) ==
    /\ last = NoRequest
    /\ LET new_state_id == GenerateStateId(minted + 1)
           out == ChangeClusteringMode(redis, upGet, upSet, state_id, mode, new_state_id)
       IN /\ out.cached => minted < MaxHandles
          /\ Complete("change_cluster", state_id,
                      IF state_id = "" THEN PyNone
                      ELSE GetCachedResult(redis, upGet, state_id), out,
                      GetCachedResult(redis, upGet, state_id), PyNone,
                      IF out.cached THEN <<new_state_id>> ELSE << >>, 0)
          /\ minted' = IF out.cached THEN minted + 1 ELSE minted
    /\ UNCHANGED pending

\* the TTL of a key runs out
Expire(key) ==
    /\ last = NoRequest
    /\ key \in DOMAIN redis
    /\ redis' = [k \in DOMAIN redis \ {key} |-> redis[k]]
    /\ last' = NoRequest
    /\ UNCHANGED <<minted, pending, used, rewrites>>

(***************************************************************************)
(* The search operations.  Each is suspended at its backend awaits, where  *)
(* the requests of other callers run: it is a step up to the first await   *)
(* that touches nothing shared, and a step from there on.  The second      *)
(* step draws how the awaited requests ended, and the request fields that  *)
(* are first read after the await.  A search begins only while a token is  *)
(* left for it to end with: MaxHandles caps the tokens of a behaviour.     *)
(***************************************************************************)
\* what a sub-query or a gather gives: its result and the requests it sent
Run(res, queries) == [res |-> res, queries |-> queries]

\* asyncio.gather of two sub-queries: the exception of one that raised, or
\* both results
Gather2(a, b) ==
    IF ~a.res.ok THEN Run(a.res, a.queries + b.queries)
    ELSE IF ~b.res.ok THEN Run(b.res, a.queries + b.queries)
    ELSE Run(Ok(<<a.res.val, b.res.val>>), a.queries + b.queries)

\* the result of fusing what a gather gave
Fused(g) ==
    IF ~g.res.ok THEN g
    ELSE Run(Fuse(g.res.val, DefaultK, DefaultAlphaTenths), g.queries)

\* a search on a collection, singles being the possible runs of one
\* sub-query: _ensemble_text_search, _ensemble_visual_search and
\* _ensemble_relevance_feedback gather one per member and fuse
Search(collection, singles) ==
    IF collection = "ensemble" /\ Len(ENSEMBLE_COLLECTIONS) > 0
    THEN {Fused(Gather2(a, b)) : a \in singles, b \in singles}
    ELSE singles

TextRuns == {Run(TextSearchOne(o), 1) : o \in MilvusOutcomes}

VisualRuns(hasQuery) ==
    IF hasQuery THEN {Run(VisualSearchOne(TRUE, o), 1) : o \in MilvusOutcomes}
    ELSE {Run(VisualSearchOne(FALSE, ApiError), 0)}

FeedbackRuns == {Run(SingleRelevanceFeedback(o), 1) : o \in MilvusOutcomes}

\* apply_filters on a result_dict: one lexical request
FilterRuns(current_result_dict) ==
    {Run(ApplyFilters(current_result_dict, eo), 1) :
        eo \in ElasticOutcomes(FilterIds(current_result_dict))}

\* the searches of text_search, visual_search and relevance_feedback, by collection
TextSearchRuns == [collection \in Collections |-> Search(collection, TextRuns)]

VisualSearchRuns ==
    [collection \in Collections |->
        [hasQuery \in BOOLEAN |-> Search(collection, VisualRuns(hasQuery))]]

FeedbackSearchRuns == [collection \in Collections |-> Search(collection, FeedbackRuns)]

\* a TemporalEvent of a request, or none: whether it has a text, an image, filters
NoEvent == [present |-> FALSE, text |-> FALSE, image |-> FALSE, filters |-> FALSE]

\* the events of the temporal requests: with a text or with nothing to search for
Events == [present : {TRUE}, text : BOOLEAN, image : {FALSE}, filters : {FALSE}]

\* the collections of the temporal requests
TemporalCollections == {"clip"}

\* search_now, search_before, search_after of visual_temporal_search: the
\* visual search of the event and, if the event has filters, apply_filters.
\* text says whether the event has a text to translate.
EventRun(r, event) == [res |-> r.res, queries |-> r.queries, text |-> event.text]

EventRuns(collection, event) ==
    IF ~event.present THEN {EventRun(Run(Ok(EmptyDict), 0), event)}
    ELSE UNION {IF v.res.ok /\ event.filters
                THEN {EventRun(Run(f.res, v.queries + f.queries), event) :
                         f \in FilterRuns(v.res.val)}
                ELSE {EventRun(v, event)} :
                   v \in VisualSearchRuns[collection][event.text \/ event.image]}

\* the runs of search_now, and of search_before or search_after
NowRuns == [collection \in TemporalCollections |->
               UNION {EventRuns(collection, event) : event \in Events}]

OtherRuns == [collection \in TemporalCollections |->
                 UNION {EventRuns(collection, event) : event \in Events \cup {NoEvent}}]

\* the hit branch of SearchService.text_search
TextSearchHit(store, cached_results, state_id, mode) ==
    IF ~Has(cached_results, "results") THEN Outcome(HTTPException("KeyError"), store)
    ELSE LET clusters == ProcessResults(Get(cached_results, "results"), mode, FALSE) IN
         IF ~clusters.ok THEN Outcome(HTTPException(clusters.err), store)
         ELSE IF ~Has(cached_results, "translated_texts")
         THEN Outcome(HTTPException("KeyError"), store)
         ELSE Outcome(GeneralResponse(mode, state_id, clusters.val,
                                      Strings(Get(cached_results, "translated_texts"))),
                      store)

\* a text_search that takes its token before it looks at the text
TextSearchEmpty_Minting ==
    /\ last = NoRequest
    /\ minted < MaxHandles
    /\ minted' = minted + 1
    /\ Complete("text_search", "", PyNone, Failed("ValueError"), PyNone, PyNone,
                <<GenerateStateId(minted + 1)>>, 0)
    /\ UNCHANGED pending

\* SearchService.text_search with an empty text, which reads nothing else
TextSearchEmpty ==
    /\ last = NoRequest
    /\ Complete("text_search", "", PyNone, Failed("ValueError"), PyNone, PyNone, << >>, 0)
    /\ UNCHANGED <<minted, pending>>

\* SearchService.text_search up to its first await: the cache lookup
TextSearchBegin(req_state_id, up) ==
    /\ last = NoRequest
    /\ Len(pending) < MaxPending
    /\ LET generate == req_state_id = ""
           state_id == IF generate THEN GenerateStateId(minted + 1) ELSE req_state_id
           tokens == IF generate THEN <<state_id>> ELSE << >>
           cached_results == GetCachedResult(redis, up, state_id)
       IN /\ generate => minted < MaxHandles
          /\ minted' = IF generate THEN minted + 1 ELSE minted
          /\ IF Truthy(cached_results)
             THEN /\ \E mode \in Modes :
                        Complete("text_search", req_state_id, cached_results,
                                 TextSearchHit(redis, cached_results, state_id, mode),
                                 PyNone, Get(cached_results, "results"), tokens, 0)
                  /\ UNCHANGED pending
             ELSE /\ minted' < MaxHandles
                  /\ pending' = Append(pending,
                                        Call("text_search", req_state_id, PyNone, tokens))
                  /\ last' = NoRequest
                  /\ UNCHANGED <<redis, used, rewrites>>

\* SearchService.visual_search and relevance_feedback touch nothing before
\* their first await
SearchBegin(op) ==
    /\ last = NoRequest
    /\ Len(pending) < MaxPending
    /\ minted < MaxHandles
    /\ pending' = Append(pending, Call(op, "", PyNone, << >>))
    /\ last' = NoRequest
    /\ UNCHANGED <<redis, minted, used, rewrites>>

\* the state a search caches
SearchState(result_dict) ==
    PyDict(<< <<"temporal", PyBool(FALSE)>>, <<"results", result_dict>> >>)

\* a search that caches its state under the fresh handle and answers with
\* no handle
StoreAndProject_NoHandle(store, up, result_dict, mode, new_state_id, translated_texts) ==
    Cached(GeneralResponse(mode, "", << >>, translated_texts),
           CacheResult(store, up, new_state_id, SearchState(result_dict)))

\* what text_search, visual_search and relevance_feedback do with their
\* result_dict: cache it under a fresh handle and project it
StoreAndProject(store, up, result_dict, mode, new_state_id, translated_texts) ==
    LET cached == CacheResult(store, up, new_state_id, SearchState(result_dict))
        clusters == ProcessResults(result_dict, mode, FALSE)
    IN IF clusters.ok
       THEN Cached(GeneralResponse(mode, new_state_id, clusters.val, translated_texts),
                   cached)
       ELSE Cached(HTTPException(clusters.err), cached)

\* How a call of _translate_text goes: the service answers with the
\* translation, or the request fails in some way (the service cannot be
\* reached, answers with an error status or with a payload that is not the
\* JSON asked for), or TRANSLATION_ENDPOINT is not set.  The endpoint is
\* read once, when the service is constructed; a request of the model draws
\* it with the rest, which covers a service with and one without it.
Translations == {"translated", "failed", "unset"}

\* SearchService._translate_text: the translation, the text itself if the
\* request failed, and the AssertionError of the assert before the try
\* block if the endpoint is not set
TranslateText(text, translation) ==
    IF translation = "unset" THEN Raise("AssertionError")
    ELSE IF translation = "translated" THEN Ok(text \o " (en)")
    ELSE Ok(text)

\* the outcome of a handler that called _translate_text
Translating(out, translation) == [out EXCEPT !.translation = translation]

\* the suspended request i ends
Finish(i, state_id, out, value, result, tokens, queries) ==
    /\ Complete(pending[i].op, state_id, pending[i].cached, out, value, result,
                pending[i].tokens \o tokens, queries)
    /\ pending' = Remove(pending, i)
    /\ minted' = minted + Len(tokens)

\* SearchService.text_search from the translation on
TextSearchFinish(i, mode, translate_mode, translation, run, up) ==
    /\ pending[i].op = "text_search"
    /\ LET text == TranslateText("query", translation)
           translated_texts == IF translate_mode THEN <<text.val>> ELSE << >>
           how == IF translate_mode THEN translation ELSE "none"
           new_state_id == GenerateStateId(minted + 1)
           queries == run.queries + (IF translate_mode THEN 1 ELSE 0)
       IN IF translate_mode /\ ~text.ok
          THEN Finish(i, pending[i].state_id, Translating(Failed(text.err), how),
                      PyNone, PyNone, << >>, 0)
          ELSE IF ~run.res.ok
          THEN Finish(i, pending[i].state_id, Translating(Failed(run.res.err), how),
                      PyNone, PyNone, << >>, queries)
          ELSE /\ minted < MaxHandles
               /\ Finish(i, pending[i].state_id,
                         Translating(StoreAndProject(redis, up, run.res.val, mode,
                                                     new_state_id, translated_texts),
                                     how),
                         SearchState(run.res.val), run.res.val, <<new_state_id>>, queries)

\* SearchService.visual_search
VisualSearchFinish(i, mode, run, up) ==
    /\ pending[i].op = "visual_search"
    /\ LET new_state_id == GenerateStateId(minted + 1)
       IN IF ~run.res.ok
          THEN Finish(i, "", Failed(run.res.err), PyNone, PyNone, << >>, run.queries)
          ELSE /\ minted < MaxHandles
               /\ Finish(i, "",
                         StoreAndProject(redis, up, run.res.val, mode, new_state_id, << >>),
                         SearchState(run.res.val), run.res.val, <<new_state_id>>,
                         run.queries)

\* SearchService.relevance_feedback
RelevanceFeedbackFinish(i, state_id, mode, run, up) ==
    /\ pending[i].op = "relevance_feedback"
    /\ LET new_state_id == GenerateStateId(minted + 1)
       IN IF ~run.res.ok
          THEN Finish(i, state_id, Failed(run.res.err), PyNone, PyNone, << >>,
                      run.queries)
          ELSE IF ~Truthy(run.res.val)
          THEN Finish(i, state_id,
                      Outcome(GeneralResponse(mode, state_id, << >>, << >>), redis),
                      PyNone, run.res.val, << >>, run.queries)
          ELSE /\ minted < MaxHandles
               /\ Finish(i, state_id,
                         StoreAndProject(redis, up, run.res.val, mode, new_state_id, << >>),
                         SearchState(run.res.val), run.res.val, <<new_state_id>>,
                         run.queries)

(***************************************************************************)
(* routers/chat.py filter_chat: the cache lookup, the await of             *)
(* apply_filters, and the rest.                                            *)
(***************************************************************************)
\* current_result_dict of filter_chat
CurrentResultDict(cached_result) ==
    IF Truthy(cached_result) THEN Get(cached_result, "results") ELSE EmptyDict

FilterBegin(state_id, up) ==
    /\ last = NoRequest
    /\ Len(pending) < MaxPending
    /\ minted < MaxHandles
    /\ LET cached_result == GetCachedResult(redis, up, state_id) IN
       IF Truthy(cached_result) /\ ~Has(cached_result, "results")
       THEN /\ Complete("filter", state_id, cached_result, Failed("KeyError"), PyNone, PyNone, << >>, 0)
            /\ UNCHANGED <<minted, pending>>
       ELSE /\ pending' = Append(pending, Call("filter", state_id, cached_result, << >>))
            /\ last' = NoRequest
            /\ UNCHANGED <<redis, minted, used, rewrites>>

\* the state filter_chat caches
FilterState(cached_result, result_dict) ==
    PyDict(<< <<"temporal", IF Truthy(cached_result) THEN Get(cached_result, "temporal")
                            ELSE PyBool(FALSE)>>,
              <<"results", result_dict>> >>)

FilterFinish(i, mode, run, up) ==
    /\ pending[i].op = "filter"
    /\ LET cached_result == pending[i].cached
           state_id == pending[i].state_id
           new_state_id == GenerateStateId(minted + 1)
           clusters == ProcessResults(run.res.val, mode, FALSE)
       IN IF ~run.res.ok
          THEN Finish(i, state_id, Failed(run.res.err), PyNone, PyNone, << >>,
                      run.queries)
          ELSE IF ~clusters.ok
          THEN Finish(i, state_id, Failed(clusters.err), PyNone, run.res.val, << >>,
                      run.queries)
          ELSE /\ minted < MaxHandles
               /\ IF Truthy(cached_result) /\ ~Has(cached_result, "temporal")
                  THEN Finish(i, state_id, Failed("KeyError"), PyNone, run.res.val,
                              <<new_state_id>>, run.queries)
                  ELSE LET cached_results == FilterState(cached_result, run.res.val) IN
                       Finish(i, state_id,
                              Cached(GeneralResponse(mode, new_state_id, clusters.val, << >>),
                                     CacheResult(redis, up, new_state_id, cached_results)),
                              cached_results, run.res.val, <<new_state_id>>, run.queries)

(***************************************************************************)
(* SearchService.visual_temporal_search.                                   *)
(***************************************************************************)
TimeIntervals == {60}

\* the state visual_temporal_search caches
TemporalState(sorted_result_dict, translated_texts) ==
    PyDict(<< <<"temporal", PyBool(TRUE)>>,
              <<"results", sorted_result_dict>>,
              <<"translated_texts",
                PyList([j \in 1..Len(translated_texts) |-> PyStr(translated_texts[j])])>> >>)

\* the request has no now event
TemporalSearchInvalid ==
    /\ last = NoRequest
    /\ Complete("temporal_search", "", PyNone, Failed("ValueError"), PyNone, PyNone,
                << >>, 0)
    /\ UNCHANGED <<minted, pending>>

\* up to the first await: a token is minted and looked up
TemporalSearchBegin(up) ==
    /\ last = NoRequest
    /\ Len(pending) < MaxPending
    /\ minted + 1 < MaxHandles
    /\ minted' = minted + 1
    /\ LET state_id == GenerateStateId(minted + 1)
           cached_results == GetCachedResult(redis, up, state_id)
       IN IF Truthy(cached_results)
          THEN /\ LET clusters == IF Has(cached_results, "results")
                                  THEN ProcessResults(Get(cached_results, "results"),
                                                      Mode_VIDEO, TRUE)
                                  ELSE Raise("KeyError")
                  IN Complete("temporal_search", "", cached_results,
                              IF clusters.ok /\ Has(cached_results, "translated_texts")
                              THEN Outcome(GeneralResponse(
                                              Mode_VIDEO, state_id, clusters.val,
                                              Strings(Get(cached_results, "translated_texts"))),
                                           redis)
                              ELSE Failed("KeyError"),
                              PyNone, PyNone, <<state_id>>, 0)
               /\ UNCHANGED pending
          ELSE /\ pending' = Append(pending, Call("temporal_search", "", PyNone, <<state_id>>))
               /\ last' = NoRequest
               /\ UNCHANGED <<redis, used, rewrites>>

\* the texts of the events that have one, translated: now, before, after
TranslatedTexts(now, before, after, translation) ==
    (IF now.text THEN <<TranslateText("query", translation).val>> ELSE << >>)
    \o (IF before.text THEN <<TranslateText("query", translation).val>> ELSE << >>)
    \o (IF after.text THEN <<TranslateText("query", translation).val>> ELSE << >>)

\* from the translations on: the gather of the event searches, the
\* correlation loop, the projection, the token and the cache write
TemporalSearchFinish(i, now, before, after, time_interval, translate_mode, translation, up) ==
    /\ pending[i].op = "temporal_search"
    /\ LET translated_texts == IF translate_mode
                               THEN TranslatedTexts(now, before, after, translation)
                               ELSE << >>
           how == IF Len(translated_texts) > 0 THEN translation ELSE "none"
           queries == now.queries + before.queries + after.queries + Len(translated_texts)
           gathered == IF ~now.res.ok THEN now.res
                       ELSE IF ~before.res.ok THEN before.res
                       ELSE IF ~after.res.ok THEN after.res
                       ELSE Correlate(now.res.val, before.res.val, after.res.val,
                                      time_interval)
           clusters == ProcessResults(gathered.val, Mode_VIDEO, TRUE)
           new_state_id == GenerateStateId(minted + 1)
       IN IF how = "unset"
          THEN Finish(i, "", Translating(Failed("AssertionError"), how), PyNone, PyNone,
                      << >>, 0)
          ELSE IF ~gathered.ok
          THEN Finish(i, "", Translating(Failed(gathered.err), how), PyNone, PyNone,
                      << >>, queries)
          ELSE IF ~clusters.ok
          THEN Finish(i, "", Translating(Failed(clusters.err), how), PyNone, gathered.val,
                      << >>, queries)
          ELSE LET cached_results == TemporalState(gathered.val, translated_texts) IN
               /\ minted < MaxHandles
               /\ Finish(i, "",
                         Translating(
                            Cached(GeneralResponse(Mode_VIDEO, new_state_id, clusters.val,
                                                   translated_texts),
                                   CacheResult(redis, up, new_state_id, cached_results)),
                            how),
                         cached_results, gathered.val, <<new_state_id>>, queries)

\* the suspended requests of an operation
Suspended(op) == {i \in 1..Len(pending) : last = NoRequest /\ pending[i].op = op}

Next ==
    \/ Respond /\ UNCHANGED call
    \/ \E state_id \in StateIds, mode \in Modes, up \in BOOLEAN :
          Restore(state_id, mode, up) /\ UNCHANGED call
    \/ \E state_id \in StateIds, mode \in Modes, upGet, upSet \in BOOLEAN :
          ChangeCluster(state_id, mode, upGet, upSet) /\ UNCHANGED call
    \/ \E key \in DOMAIN redis : Expire(key) /\ UNCHANGED call
    \/ TextSearchEmpty /\ UNCHANGED call
    \/ \E state_id \in StateIds, up \in BOOLEAN :
          TextSearchBegin(state_id, up) /\ UNCHANGED call
    \/ \E op \in {"visual_search", "relevance_feedback"} : SearchBegin(op) /\ UNCHANGED call
    \/ \E state_id \in StateIds, up \in BOOLEAN : FilterBegin(state_id, up) /\ UNCHANGED call
    \/ TemporalSearchInvalid /\ UNCHANGED call
    \/ \E up \in BOOLEAN : TemporalSearchBegin(up) /\ UNCHANGED call
    \/ \E i \in Suspended("text_search"), mode \in Modes, collection \in Collections,
          translate_mode, up \in BOOLEAN, translation \in Translations :
          \E run \in TextSearchRuns[collection] :
             TextSearchFinish(i, mode, translate_mode, translation, run, up)
             /\ UNCHANGED call
    \/ \E i \in Suspended("visual_search"), mode \in Modes, collection \in Collections,
          hasQuery, up \in BOOLEAN :
          \E run \in VisualSearchRuns[collection][hasQuery] :
             VisualSearchFinish(i, mode, run, up) /\ UNCHANGED call
    \/ \E i \in Suspended("relevance_feedback"), mode \in Modes, collection \in Collections,
          state_id \in StateIds, up \in BOOLEAN :
          \E run \in FeedbackSearchRuns[collection] :
             RelevanceFeedbackFinish(i, state_id, mode, run, up) /\ UNCHANGED call
    \/ \E i \in Suspended("filter"), mode \in Modes, up \in BOOLEAN :
          \E run \in FilterRuns(CurrentResultDict(pending[i].cached)) :
             FilterFinish(i, mode, run, up) /\ UNCHANGED call
    \/ \E i \in Suspended("temporal_search"), collection \in TemporalCollections,
          time_interval \in TimeIntervals, translate_mode, up \in BOOLEAN,
          translation \in Translations :
          \E now \in NowRuns[collection], before, after \in OtherRuns[collection] :
             TemporalSearchFinish(i, now, before, after, time_interval, translate_mode,
                                  translation, up)
             /\ UNCHANGED call

Spec == Init /\ [][Next]_vars

(***************************************************************************)
(* visual_temporal_search of a service that starts on a cache that earlier *)
(* calls have written: secrets.token_hex may return any token of 48 bits,  *)
(* so the cache may hold states under the tokens this service is to mint.  *)
(***************************************************************************)
\* the states earlier calls may have stored: of a temporal search without
\* and with a record, and of a filter
EarlierStates ==
    LET result_dict ==
            FormatMilvusResult(
                << <<Frames[1].id, ScoreUnit, Frames[1].url, Frames[1].time>> >>).val
    IN {TemporalState(EmptyDict, << >>),
        TemporalState(Correlate(result_dict, EmptyDict, EmptyDict, 60).val, <<"query">>),
        PyDict(<< <<"temporal", PyBool(FALSE)>>, <<"results", result_dict>> >>)}

\* the keyspaces that hold such states under the first tokens
EarlierStores ==
    UNION {[keys -> {JsonDumps(state) : state \in EarlierStates}] :
              keys \in SUBSET {"search_" \o GenerateStateId(n) : n \in 1..2}}

StoreInit ==
    /\ redis \in EarlierStores
    /\ minted = 0
    /\ pending = << >>
    /\ last = NoRequest
    /\ used = DOMAIN redis
    /\ rewrites = {}
    /\ call = NoCall

StoreNext ==
    \/ Respond /\ UNCHANGED call
    \/ \E key \in DOMAIN redis : Expire(key) /\ UNCHANGED call
    \/ \E up \in BOOLEAN : TemporalSearchBegin(up) /\ UNCHANGED call
    \/ \E i \in Suspended("temporal_search"), collection \in TemporalCollections,
          time_interval \in TimeIntervals, translate_mode, up \in BOOLEAN,
          translation \in Translations :
          \E now \in NowRuns[collection], before, after \in OtherRuns[collection] :
             TemporalSearchFinish(i, now, before, after, time_interval, translate_mode,
                                  translation, up)
             /\ UNCHANGED call

StoreSpec == StoreInit /\ [][StoreNext]_vars
(***************************************************************************)
(* A search seen from the inside.  Its sub-queries are the coroutines it   *)
(* hands to asyncio.gather (the members of the ensemble, or the searches   *)
(* of the now, before and after events) or, without a gather, the one      *)
(* coroutine it awaits.  Each sends its request when the gather starts it  *)
(* and ends when its backend answers, one at a time and in any order; the  *)
(* handler resumes when all have returned or when the first has raised,    *)
(* and goes on as in the Finish step of its operation.  The searches are   *)
(* those of a service that has answered nothing yet, and they ask for no   *)
(* translation.                                                            *)
(***************************************************************************)
\* the events of the temporal searches looked at from the inside
FanOutEvents == [present : {TRUE}, text : BOOLEAN, image : {FALSE}, filters : BOOLEAN]

\* a sub-query that has sent its request to the similarity backend.  failed
\* and malformed say at which backend ("milvus", "elastic", "" for none) a
\* request of it has failed, or was answered with a record whose id does
\* not split into three parts.
Task(kind, event) ==
    [kind |-> kind, event |-> event, pc |-> "milvus", res |-> PyNone,
     queries |-> IF kind = "visual" /\ ~(event.text \/ event.image) THEN 0 ELSE 1,
     failed |-> "", malformed |-> ""]

\* a text or feedback sub-query has a query; it has no filters
Plain == [present |-> TRUE, text |-> TRUE, image |-> FALSE, filters |-> FALSE]

\* the sub-queries of text_search, visual_search and relevance_feedback on
\* a collection: one per member of the ensemble, or one
Members(kind, collection, event) ==
    IF collection = "ensemble" /\ Len(ENSEMBLE_COLLECTIONS) > 0
    THEN [j \in 1..Len(ENSEMBLE_COLLECTIONS) |-> Task(kind, event)]
    ELSE <<Task(kind, event)>>

\* search_tasks of visual_temporal_search
SearchTasks(now, before, after) ==
    <<Task("visual", now)>>
    \o (IF before.present THEN <<Task("visual", before)>> ELSE << >>)
    \o (IF after.present THEN <<Task("visual", after)>> ELSE << >>)

\* the call in flight: its sub-queries, whether a temporal request has a
\* before and an after event, the exception that reached the gather first
\* ("" for none), the sub-queries that have returned, in the order in which
\* they did, and, once the handler has resumed, the results it went on with
FanOut(op, collection, tasks, before, after) ==
    [op |-> op, collection |-> collection, tasks |-> tasks, before |-> before,
     after |-> after, pc |-> "awaiting", exc |-> "", order |-> << >>, handed |-> << >>]

\* what a sub-query makes of the answer of the similarity backend
SubQuery(task, o) ==
    IF task.kind = "text" THEN TextSearchOne(o)
    ELSE IF task.kind = "feedback" THEN SingleRelevanceFeedback(o)
    ELSE VisualSearchOne(task.queries > 0, o)

\* an answer holds a record whose id does not split into three parts
Malformed(o) == \E j \in 1..Len(o.hits) : Len(SplitSlash(o.hits[j][1])) # 3

\* what the answer o of a backend adds to the flags of sub-query i
Answered(c, i, backend, o) ==
    [c EXCEPT !.tasks[i].failed = IF o.kind = "api_error" THEN backend ELSE @,
              !.tasks[i].malformed = IF Malformed(o) THEN backend ELSE @]

\* a sub-query that sends its request once more before it gives up
Raised_Retrying(c, i, err) ==
    IF c.tasks[i].queries < 2
    THEN [c EXCEPT !.tasks[i].pc = "milvus", !.tasks[i].queries = @ + 1]
    ELSE [c EXCEPT !.tasks[i].pc = "raised", !.exc = IF c.exc = "" THEN err ELSE c.exc]

\* a sub-query ends with an exception: the gather keeps the first
Raised(c, i, err) ==
    [c EXCEPT !.tasks[i].pc = "raised", !.exc = IF c.exc = "" THEN err ELSE c.exc]

\* the similarity backend answers sub-query i, or its request fails; a
\* sub-query with nothing to search for returns without a request
MilvusAnswers(i, o) ==
    /\ last = NoRequest
    /\ call.tasks[i].pc = "milvus"
    /\ call.tasks[i].queries = 0 => o = Answer(<< >>)
    /\ LET task == call.tasks[i]
           r == SubQuery(task, o)
           c == Answered(call, i, "milvus", o)
       IN call' = IF ~r.ok THEN Raised(c, i, r.err)
                  ELSE [c EXCEPT
                          !.tasks[i].pc = IF task.event.filters THEN "elastic"
                                          ELSE "returned",
                          !.tasks[i].res = r.val,
                          !.tasks[i].queries = IF task.event.filters THEN @ + 1 ELSE @,
                          !.order = IF task.event.filters THEN @ ELSE Append(@, i)]
    /\ UNCHANGED <<redis, minted, pending, last, used, rewrites>>

\* the lexical backend answers the apply_filters of sub-query i, or its
\* request fails
ElasticAnswers(i, eo) ==
    /\ last = NoRequest
    /\ call.tasks[i].pc = "elastic"
    /\ LET task == call.tasks[i]
           r == ApplyFilters(task.res, eo)
           c == Answered(call, i, "elastic", eo)
       IN call' = IF ~r.ok THEN Raised(c, i, r.err)
                  ELSE [c EXCEPT !.tasks[i].pc = "returned", !.tasks[i].res = r.val,
                                 !.order = Append(@, i)]
    /\ UNCHANGED <<redis, minted, pending, last, used, rewrites>>

\* a gather that is over as soon as one sub-query has returned
GatherDone_First(tasks) == \E i \in 1..Len(tasks) : tasks[i].pc = "returned"

\* asyncio.gather has all its results
GatherDone(tasks) == \A i \in 1..Len(tasks) : tasks[i].pc = "returned"

\* the handler resumes from its await: with the results, or with the
\* first exception
Resumes(c) == c.op # "none" /\ c.pc = "awaiting" /\ (c.exc # "" \/ GatherDone(c.tasks))

\* the requests the sub-queries have sent
RECURSIVE Sent(_, _)
Sent(tasks, i) == IF i > Len(tasks) THEN 0 ELSE tasks[i].queries + Sent(tasks, i + 1)

\* what sub-query i gave
TaskRun(c, i) == Run(Ok(c.tasks[i].res), c.tasks[i].queries)

\* what the await of an ensemble or single search gives
Awaited(c) ==
    IF c.exc # "" THEN Run(Raise(c.exc), Sent(c.tasks, 1))
    ELSE IF Len(c.tasks) = 1 THEN TaskRun(c, 1)
    ELSE Fused(Gather2(TaskRun(c, 1), TaskRun(c, 2)))

\* the call after the handler has resumed
Resumed(c) ==
    IF c.exc # "" THEN [c EXCEPT !.pc = "raised"]
    ELSE [c EXCEPT !.pc = "joined",
                   !.handed = [i \in 1..Len(c.tasks) |-> c.tasks[i].res]]

\* a first search begins and starts its sub-queries
FanOutBegins(op, collection, tasks, before, after) ==
    /\ call = NoCall
    /\ minted = 0
    /\ call' = FanOut(op, collection, tasks, before, after)

\* the results of the event searches taken in the order in which the
\* sub-queries returned
EventAt_AsCompleted(c, kind) ==
    LET j == IF kind = "now" THEN 1
             ELSE IF kind = "before" THEN (IF c.before THEN 2 ELSE 0)
             ELSE (IF ~c.after THEN 0 ELSE IF c.before THEN 3 ELSE 2)
    IN IF c.exc # ""
       THEN IF kind = "now"
            THEN EventRun(Run(Raise(c.exc), Sent(c.tasks, 1)), NoEvent)
            ELSE EventRun(Run(Ok(EmptyDict), 0), NoEvent)
       ELSE IF j = 0 THEN EventRun(Run(Ok(EmptyDict), 0), NoEvent)
       ELSE EventRun(TaskRun(c, c.order[j]), NoEvent)

\* results[0], results[before_idx] and results[after_idx] of
\* visual_temporal_search, {} for an event the request does not have
EventAt(c, kind) ==
    LET j == IF kind = "now" THEN 1
             ELSE IF kind = "before" THEN (IF c.before THEN 2 ELSE 0)
             ELSE (IF ~c.after THEN 0 ELSE IF c.before THEN 3 ELSE 2)
    IN IF c.exc # ""
       THEN IF kind = "now"
            THEN EventRun(Run(Raise(c.exc), Sent(c.tasks, 1)), NoEvent)
            ELSE EventRun(Run(Ok(EmptyDict), 0), NoEvent)
       ELSE IF j = 0 THEN EventRun(Run(Ok(EmptyDict), 0), NoEvent)
       ELSE EventRun(TaskRun(c, j), NoEvent)

FanOutNext ==
    \/ Respond /\ UNCHANGED call
    \/ \E state_id \in {"", UnknownStateId}, up \in BOOLEAN, collection \in Collections :
          /\ TextSearchBegin(state_id, up)
          /\ FanOutBegins("text_search", collection, Members("text", collection, Plain),
                          FALSE, FALSE)
    \/ \E collection \in Collections, text \in BOOLEAN :
          /\ SearchBegin("visual_search")
          /\ FanOutBegins("visual_search", collection,
                          Members("visual", collection, [Plain EXCEPT !.text = text]),
                          FALSE, FALSE)
    \/ \E collection \in Collections :
          /\ SearchBegin("relevance_feedback")
          /\ FanOutBegins("relevance_feedback", collection,
                          Members("feedback", collection, Plain), FALSE, FALSE)
    \/ \E up \in BOOLEAN, collection \in TemporalCollections, now \in FanOutEvents,
          before, after \in FanOutEvents \cup {NoEvent} :
          /\ TemporalSearchBegin(up)
          /\ FanOutBegins("temporal_search", collection, SearchTasks(now, before, after),
                          before.present, after.present)
    \/ \E i \in 1..(IF call = NoCall THEN 0 ELSE Len(call.tasks)), o \in MilvusOutcomes :
          MilvusAnswers(i, o)
    \/ \E i \in 1..(IF call = NoCall THEN 0 ELSE Len(call.tasks)) :
          /\ call.tasks[i].pc = "elastic"
          /\ \E eo \in ElasticOutcomes(FilterIds(call.tasks[i].res)) : ElasticAnswers(i, eo)
    \/ /\ Resumes(call)
       /\ \E i \in Suspended("text_search"), mode \in Modes, up \in BOOLEAN :
             TextSearchFinish(i, mode, FALSE, "failed", Awaited(call), up)
       /\ call' = Resumed(call)
    \/ /\ Resumes(call)
       /\ \E i \in Suspended("visual_search"), mode \in Modes, up \in BOOLEAN :
             VisualSearchFinish(i, mode, Awaited(call), up)
       /\ call' = Resumed(call)
    \/ /\ Resumes(call)
       /\ \E i \in Suspended("relevance_feedback"), mode \in Modes,
             state_id \in StateIds, up \in BOOLEAN :
             RelevanceFeedbackFinish(i, state_id, mode, Awaited(call), up)
       /\ call' = Resumed(call)
    \/ /\ Resumes(call)
       /\ \E i \in Suspended("temporal_search"), time_interval \in TimeIntervals,
             up \in BOOLEAN :
             TemporalSearchFinish(i, EventAt(call, "now"), EventAt(call, "before"),
                                  EventAt(call, "after"), time_interval, FALSE, "failed",
                                  up)
       /\ call' = Resumed(call)

FanOutSpec == Init /\ [][FanOutNext]_vars

(***************************************************************************)
(* The functions of helpers/fusion.py on their own: a call of fuse or of   *)
(* reciprocal_rank_fusion on a list of result sets, with the k of the      *)
(* service and with alpha at its default and at its two ends.  A result    *)
(* set holds up to MaxLen + 1 records of frames of the corpus, in any      *)
(* order, each with a score of a half or of one and with one of two urls.   *)
(***************************************************************************)
\* the frames whose ids split into three parts
FusionFrames == {i \in 1..Len(Frames) : Len(Frames[i].parts) = 3}

FusionScores == {ScoreUnit \div 2, ScoreUnit}

\* alpha, in tenths
FusionAlphas == {0, DefaultAlphaTenths, 10}

FusionUrls == {Frames[i].url : i \in FusionFrames}

\* the result sets: what _format_milvus_result makes of an answer
FusionSetsOf(n) ==
    {FormatMilvusResult(
        [j \in 1..n |-> <<Frames[a[j]].id, s[j], u[j], Frames[a[j]].time>>]).val :
        a \in {b \in [1..n -> FusionFrames] : \A i, j \in 1..n : b[i] = b[j] => i = j},
        s \in [1..n -> FusionScores], u \in [1..n -> FusionUrls]}

FusionSets == UNION {FusionSetsOf(n) : n \in 0..(MaxLen + 1)}

\* the lists of result sets: as many as the ensemble has members, or fewer
FusionLists == UNION {[1..n -> FusionSets] : n \in 0..Len(ENSEMBLE_COLLECTIONS)}

\* a call of a function of RRFFusion that has not returned yet: results is
\* the list of result sets as the caller passes it, after the list as the
\* caller has it once the call has returned
FusionCall(op, results, k, alphaTenths) ==
    [op |-> op, results |-> results, k |-> k, alphaTenths |-> alphaTenths,
     pc |-> "called", value |-> PyNone, after |-> << >>]

FusionInit ==
    /\ Fresh
    /\ call \in {FusionCall(op, results, DefaultK, alphaTenths) :
                    op \in {"fuse", "reciprocal_rank_fusion", "comb_mnz_fusion"},
                    results \in FusionLists, alphaTenths \in FusionAlphas}

\* the ids of a list of result sets, in the order a dict meets them
RECURSIVE DocIds(_, _, _)
DocIds(results, i, seen) ==
    IF i > Len(results) THEN seen
    ELSE DocIds(results, i + 1,
                seen \o SelectSeq(Keys(results[i]),
                                  LAMBDA id : \A j \in 1..Len(seen) : seen[j] # id))

\* RRFFusion.reciprocal_rank_fusion: dict(fused_scores)
ReciprocalRankFusionDict(results, k) ==
    LET ids == DocIds(results, 1, << >>)
    IN PyDict([j \in 1..Len(ids) |->
                 <<ids[j], PyNum(ReciprocalRankFusion(results, 1, ids[j], k))>>])

\* RRFFusion.comb_mnz_fusion: the dict over the keys of sum_scores
CombMnzFusionDict(results) ==
    LET ids == DocIds(results, 1, << >>)
    IN PyDict([j \in 1..Len(ids) |-> <<ids[j], PyNum(CombMnzFusion(results, ids[j]))>>])

\* fuse returns
FuseReturns ==
    /\ call.op = "fuse" /\ call.pc = "called"
    /\ call' = [call EXCEPT !.pc = "returned",
                            !.value = Fuse(call.results, call.k, call.alphaTenths).val,
                            !.after = FusedInPlace(call.results, call.k, call.alphaTenths)]
    /\ UNCHANGED <<redis, minted, pending, last, used, rewrites>>

\* reciprocal_rank_fusion returns
ReciprocalRankFusionReturns ==
    /\ call.op = "reciprocal_rank_fusion" /\ call.pc = "called"
    /\ call' = [call EXCEPT !.pc = "returned",
                            !.value = ReciprocalRankFusionDict(call.results, call.k),
                            !.after = call.results]
    /\ UNCHANGED <<redis, minted, pending, last, used, rewrites>>

\* comb_mnz_fusion returns
CombMnzFusionReturns ==
    /\ call.op = "comb_mnz_fusion" /\ call.pc = "called"
    /\ call' = [call EXCEPT !.pc = "returned", !.value = CombMnzFusionDict(call.results),
                            !.after = call.results]
    /\ UNCHANGED <<redis, minted, pending, last, used, rewrites>>

FusionNext == FuseReturns \/ ReciprocalRankFusionReturns \/ CombMnzFusionReturns

FusionSpec == FusionInit /\ [][FusionNext]_vars

(***************************************************************************)
(* The parameters of RRFFusion: the constructor and the setters of k and   *)
(* alpha.  An alpha is a number of tenths or the float nan, which every    *)
(* comparison answers with False.                                          *)
(***************************************************************************)
Tenths(n) == [nan |-> FALSE, tenths |-> n]
NaN == [nan |-> TRUE, tenths |-> 0]

EngineKs == {-1, 0, 1, 2, DefaultK}
EngineAlphas == {Tenths(n) : n \in {-1, 0, DefaultAlphaTenths, 5, 10, 11}} \cup {NaN}

\* 0.0 <= value <= 1.0
AlphaInRange(value) == ~value.nan /\ 0 <= value.tenths /\ value.tenths <= 10

\* no RRFFusion yet
NoEngine ==
    [op |-> "engine", pc |-> "absent", k |-> 0, alpha |-> Tenths(0),
     did |-> "", k_arg |-> 0, alpha_arg |-> Tenths(0), raised |-> ""]

EngineInit == Fresh /\ call = NoEngine

\* a k setter that stores the value before it looks at it
SetK_Late(value) ==
    /\ call.op = "engine" /\ call.pc = "ready"
    /\ call' = [call EXCEPT !.did = "k", !.k_arg = value, !.k = value,
                            !.raised = IF value < 1 THEN "ValueError" ELSE ""]
    /\ UNCHANGED <<redis, minted, pending, last, used, rewrites>>

\* RRFFusion.k = value
SetK(value) ==
    /\ call.op = "engine" /\ call.pc = "ready"
    /\ call' = IF value < 1
               THEN [call EXCEPT !.did = "k", !.k_arg = value, !.raised = "ValueError"]
               ELSE [call EXCEPT !.did = "k", !.k_arg = value, !.raised = "",
                                 !.k = value]
    /\ UNCHANGED <<redis, minted, pending, last, used, rewrites>>

\* RRFFusion.alpha = value
SetAlpha(value) ==
    /\ call.op = "engine" /\ call.pc = "ready"
    /\ call' = IF ~AlphaInRange(value)
               THEN [call EXCEPT !.did = "alpha", !.alpha_arg = value,
                                 !.raised = "ValueError"]
               ELSE [call EXCEPT !.did = "alpha", !.alpha_arg = value, !.raised = "",
                                 !.alpha = value]
    /\ UNCHANGED <<redis, minted, pending, last, used, rewrites>>

\* RRFFusion(k, alpha): the setter of k, then that of alpha; an exception of
\* either leaves no object
Construct(k, alpha) ==
    /\ call.op = "engine" /\ call.pc = "absent"
    /\ call' = IF k < 1 \/ ~AlphaInRange(alpha)
               THEN [call EXCEPT !.did = "init", !.k_arg = k, !.alpha_arg = alpha,
                                 !.raised = "ValueError"]
               ELSE [call EXCEPT !.did = "init", !.k_arg = k, !.alpha_arg = alpha,
                                 !.raised = "", !.pc = "ready", !.k = k, !.alpha = alpha]
    /\ UNCHANGED <<redis, minted, pending, last, used, rewrites>>

EngineNext ==
    \/ \E k \in EngineKs, alpha \in EngineAlphas : Construct(k, alpha)
    \/ \E value \in EngineKs : SetK(value)
    \/ \E value \in EngineAlphas : SetAlpha(value)

EngineSpec == EngineInit /\ [][EngineNext]_vars

(***************************************************************************)
(* The correlation loop of visual_temporal_search on its own: the results  *)
(* of the three event searches are result sets of up to MaxLen + 1 records *)
(* of frames of the corpus, in any order.  A similarity score may be zero  *)
(* or negative.                                                            *)
(***************************************************************************)
\* the result sets of n records with scores of a set
EventSetsOf(n, scores) ==
    {FormatMilvusResult(
        [j \in 1..n |-> <<Frames[a[j]].id, s[j], Frames[a[j]].url, Frames[a[j]].time>>]).val :
        a \in {b \in [1..n -> FusionFrames] : \A i, j \in 1..n : b[i] = b[j] => i = j},
        s \in [1..n -> scores]}

EventSets(scores) == UNION {EventSetsOf(n, scores) : n \in 0..(MaxLen + 1)}

\* request.time_interval: the same time, less than and just the distance
\* of two frames of a video
CorrelationIntervals == {0, 10, 20}

CorrelationInit ==
    /\ Fresh
    /\ call \in [op : {"correlate"},
                 now : EventSets(FusionScores),
                 before : EventSets({-ScoreUnit, ScoreUnit \div 2, ScoreUnit}),
                 after : EventSets({0, ScoreUnit}),
                 time_interval : CorrelationIntervals,
                 pc : {"called"}, value : {PyNone}]

\* the loop over now_result_dict and the sort have run
CorrelateReturns ==
    /\ call.op = "correlate" /\ call.pc = "called"
    /\ call' = [call EXCEPT !.pc = "returned",
                            !.value = Correlate(call.now, call.before, call.after,
                                                call.time_interval).val]
    /\ UNCHANGED <<redis, minted, pending, last, used, rewrites>>

CorrelationNext == CorrelateReturns

CorrelationSpec == CorrelationInit /\ [][CorrelationNext]_vars

(***************************************************************************)
(* process_results on its own: a call on a result set of records of the    *)
(* frames of the corpus, in any order, with scores of 0.7, 0.8 and 0.9;    *)
(* and the call of restore_chat and change_clustering_mode with the        *)
(* results and the temporal flag of a state, the results being such a      *)
(* result set or the outcome of a correlation.                             *)
(***************************************************************************)
ProjectionScores == {(7 * ScoreUnit) \div 10, (8 * ScoreUnit) \div 10, (9 * ScoreUnit) \div 10}

ProjectionSetsOf(n) ==
    {FormatMilvusResult(
        [j \in 1..n |-> <<Frames[a[j]].id, s[j], Frames[a[j]].url, Frames[a[j]].time>>]).val :
        a \in {b \in [1..n -> FusionFrames] : \A i, j \in 1..n : b[i] = b[j] => i = j},
        s \in [1..n -> ProjectionScores]}

ProjectionSets == UNION {ProjectionSetsOf(n) : n \in 0..Cardinality(FusionFrames)}

\* sorted_result_dict of visual_temporal_search for now records of score 1
\* and at most one before and one after record of score 0.5
TemporalSets ==
    LET others == EventSetsOf(0, {ScoreUnit \div 2}) \cup EventSetsOf(1, {ScoreUnit \div 2})
    IN {Correlate(now, before, after, 20).val :
           now \in EventSets({ScoreUnit}), before \in others, after \in others}

ProjectionInit ==
    /\ Fresh
    /\ \/ call \in [op : {"process_results"}, result_dict : ProjectionSets, mode : Modes,
                    temporal : {FALSE}, pc : {"called"}, value : {PyNone}]
       \/ call \in [op : {"process_state"}, result_dict : ProjectionSets \cup TemporalSets,
                    mode : Modes, temporal : BOOLEAN, pc : {"called"}, value : {PyNone}]

\* process_results(result_dict, mode) returns
ProcessResultsReturns ==
    /\ call.op = "process_results" /\ call.pc = "called"
    /\ call' = [call EXCEPT !.pc = "returned",
                            !.value = ProcessResults(call.result_dict, call.mode, FALSE)]
    /\ UNCHANGED <<redis, minted, pending, last, used, rewrites>>

\* process_results(cached["results"], mode, cached["temporal"]) returns
ProcessStateReturns ==
    /\ call.op = "process_state" /\ call.pc = "called"
    /\ call' = [call EXCEPT !.pc = "returned",
                            !.value = ProcessResults(call.result_dict, call.mode,
                                                     call.temporal)]
    /\ UNCHANGED <<redis, minted, pending, last, used, rewrites>>

ProjectionNext == ProcessResultsReturns \/ ProcessStateReturns

ProjectionSpec == ProjectionInit /\ [][ProjectionNext]_vars

(***************************************************************************)
(* _ensemble_text_search and its twins for every ensemble the environment  *)
(* can name: ENSEMBLE_COLLECTIONS with no, one or two members.  results    *)
(* are the result sets the sub-queries returned, one per member, or the    *)
(* one of the single search.                                               *)
(***************************************************************************)
EnsembleSettings == {<< >>, <<"clip">>, ENSEMBLE_COLLECTIONS}

\* request.collection == "ensemble": the gather over the members and the
\* fusion; else, and without members, the single search
EnsembleSearch(collection, ensemble_collections, results) ==
    IF collection = "ensemble" /\ Len(ensemble_collections) > 0
    THEN Fuse(results, DefaultK, DefaultAlphaTenths)
    ELSE Ok(results[1])

\* the sub-queries of a search
SubQueries(collection, ensemble_collections) ==
    IF collection = "ensemble" /\ Len(ensemble_collections) > 0
    THEN Len(ensemble_collections) ELSE 1

EnsembleInit ==
    /\ Fresh
    /\ call \in UNION {[op : {"ensemble_search"}, collection : {collection},
                        ensemble_collections : {members},
                        results : [1..SubQueries(collection, members) -> FusionSets],
                        pc : {"called"}, value : {PyNone}] :
                       collection \in Collections, members \in EnsembleSettings}

\* the search returns result_dict
EnsembleSearchReturns ==
    /\ call.op = "ensemble_search" /\ call.pc = "called"
    /\ call' = [call EXCEPT !.pc = "returned",
                            !.value = EnsembleSearch(call.collection,
                                                     call.ensemble_collections,
                                                     call.results).val]
    /\ UNCHANGED <<redis, minted, pending, last, used, rewrites>>

EnsembleNext == EnsembleSearchReturns

EnsembleSpec == EnsembleInit /\ [][EnsembleNext]_vars

(***************************************************************************)
(* What the requests are checked against.                                  *)
(***************************************************************************)
\* the key of a handle
Key(state_id) == "search_" \o state_id

Success == last.resp.status = "success"

\* the token the request minted last, "" if it minted none
LastToken == IF Len(last.tokens) = 0 THEN "" ELSE last.tokens[Len(last.tokens)]

\* the searches that end at their backends
Searches == {"text_search", "visual_search", "relevance_feedback", "temporal_search"}

\* the request went to a backend or re-stored a state: every operation but
\* restore and a text_search answered from the cache
Mutating ==
    \/ last.op \in {"visual_search", "relevance_feedback", "filter", "change_cluster"}
    \/ last.op \in {"text_search", "temporal_search"} /\ last.queries > 0

\* relevance_feedback found nothing
EmptyFeedback == last.op = "relevance_feedback" /\ ~Truthy(last.result)

\* the clusters restore_chat gives for the state a request read
Projection(state, mode) ==
    ProcessResults(Get(state, "results"), mode, Truthy(Get(state, "temporal")))

C2_StoresOneNewState ==
    Success /\ Mutating =>
        /\ last.added = {Key(last.resp.state_id)}
        /\ last.resp.state_id = LastToken
        /\ last.resp.state_id # last.state_id

\* C2: every successful mutating call but a relevance_feedback that found
\* nothing mints a handle, different from the one in the request, hands
\* one state to the cache under it and returns it; the state is stored if
\* the write succeeds and nothing is stored if it fails.  A successful
\* relevance_feedback that found nothing mints no handle, stores nothing
\* and returns the handle of the request with no clusters.
C2_StoresUnlessEmptyFeedback ==
    Success /\ Mutating =>
        IF EmptyFeedback
        THEN /\ last.tokens = << >> /\ ~last.cached /\ last.added = {}
             /\ last.resp.state_id = last.state_id
             /\ last.resp.results = << >>
        ELSE /\ last.cached
             /\ last.tokens # << >>
             /\ last.resp.state_id = LastToken
             /\ last.resp.state_id # last.state_id
             /\ last.added = IF last.written THEN {Key(last.resp.state_id)} ELSE {}
             /\ last.written => GetCachedResult(redis, TRUE, last.resp.state_id) = last.stored

\* C2: a filter whose lexical backend returned nothing has stored its state
C2_Witness ==
    /\ Success /\ last.op = "filter" /\ last.written
    /\ last.result = EmptyDict
    /\ last.read # PyNone

\* C3: after a successful response of a search, a filter or a
\* change_cluster with handle h and mode m, while h is stored, restore_chat
\* of h and m on a reachable cache succeeds with the clusters of that
\* response and writes nothing.  It is stated for the responses whose
\* handle was minted in the call, which leaves aside the relevance_feedback
\* that found nothing and returns the handle of its request.
C3_RestoreRoundTrip ==
    /\ Success
    /\ last.op \in Searches \cup {"filter", "change_cluster"}
    /\ last.resp.state_id = LastToken
    /\ Key(last.resp.state_id) \in DOMAIN redis
    => LET restored == RestoreChat(redis, TRUE, last.resp.state_id, last.resp.mode)
       IN /\ restored.resp.status = "success"
          /\ restored.resp.results = last.resp.results
          /\ restored.store = redis

\* C4: change_cluster on a handle whose state it read stores a copy of
\* that state under a new handle, leaves the old one alone, sends no backend
\* request and returns the new handle with the state's clusters in the new
\* mode.  It is stated for the calls whose cache write, if they come to it,
\* succeeds.
C4_ChangeModeCopies ==
    last.op = "change_cluster" /\ last.read # PyNone /\ (last.cached => last.written) =>
        /\ Success
        /\ last.resp.state_id = LastToken
        /\ last.resp.state_id # last.state_id
        /\ last.added = {Key(last.resp.state_id)}
        /\ redis[Key(last.resp.state_id)] = redis[Key(last.state_id)]
        /\ last.intact
        /\ last.queries = 0
        /\ last.resp.results = Projection(last.read, last.resp.mode).val

\* C5: change_cluster on an empty handle or on one it finds no state for
\* fails with the error of an invalid state_id, mints nothing, stores
\* nothing, sends no backend request and leaves the keyspace as it was.
C5_ChangeModeInvalidState ==
    last.op = "change_cluster" /\ last.read = PyNone =>
        /\ last.resp = HTTPException("ValueError")
        /\ last.tokens = << >>
        /\ ~last.cached
        /\ last.added = {}
        /\ last.intact
        /\ last.queries = 0

\* C5: change_cluster was called with a handle whose state has expired
C5_Witness ==
    /\ last.op = "change_cluster"
    /\ Key(last.state_id) \in used \ DOMAIN redis
    /\ last.resp.status = "error"

\* C6: restore_chat always succeeds, with no clusters if it finds no state
\* and with the clusters of the state if it finds one; it writes nothing,
\* sends no backend request and returns the handle it was given.
C6_RestoreNeverFails ==
    last.op = "restore" =>
        /\ Success
        /\ last.resp.state_id = last.state_id
        /\ last.resp.results = IF last.read = PyNone THEN << >>
                               ELSE Projection(last.read, last.resp.mode).val
        /\ last.added = {} /\ last.intact /\ ~last.cached
        /\ last.queries = 0

\* C7: text_search with a handle it finds a state for succeeds with the
\* clusters of that state, sends no backend or translation request and
\* stores nothing.
C7_TextSearchFromCache ==
    last.op = "text_search" /\ Truthy(last.read) =>
        /\ Success
        /\ last.resp.results = ProcessResults(Get(last.read, "results"),
                                              last.resp.mode, FALSE).val
        /\ last.queries = 0
        /\ ~last.cached /\ last.added = {} /\ last.intact

\* C8: every state written has the keys results, temporal and
\* translated_texts, and its translated_texts are those of the response.
C8_StatesHaveThreeFields ==
    last.written =>
        /\ HasAll(last.stored, {"results", "temporal", "translated_texts"})
        /\ Strings(Get(last.stored, "translated_texts")) = last.resp.translated_texts

\* C9: after a write that succeeded, a get of the handle returns the state
\* that was handed to the cache, key by key and value by value; every key
\* added holds the JSON text of one state; a get of a handle never written
\* returns None.
C9_CacheRoundTrip ==
    /\ last.written => GetCachedResult(redis, TRUE, LastToken) = last.stored
    /\ \A k \in last.added :
          /\ JsonLoads(redis[k]).ok
          /\ JsonDumps(JsonLoads(redis[k]).val) = redis[k]
    /\ \A state_id \in StateIds \cup {GenerateStateId(minted + 1)} :
          Key(state_id) \notin used => GetCachedResult(redis, TRUE, state_id) = PyNone

\* C9: a temporal state with results, whose records hold a None, was written
C9_Witness ==
    /\ last.op = "temporal_search" /\ last.written
    /\ Truthy(last.result)
    /\ \E j \in 1..Len(last.result.v) : Get(last.result.v[j][2], "before") = PyNone

\* C10 as stated: a search that succeeds though no state was written
\* returns a handle minted in the call, which a restore_chat finds nothing
\* for.
C10_SearchSurvivesCacheFailure ==
    last.op \in Searches /\ Success /\ last.queries > 0 /\ ~last.written =>
        /\ last.resp.state_id = LastToken
        /\ last.tokens # << >>
        /\ RestoreChat(redis, TRUE, last.resp.state_id, last.resp.mode).resp.results = << >>

\* C10: a search whose cache write fails still succeeds, with the clusters
\* of what its backends returned and a handle minted in the call, which no
\* key is stored under and restore_chat finds nothing for; a
\* relevance_feedback that found nothing returns the handle of the request
\* instead, with no clusters, whether the cache can be reached or not.
C10_CacheFailureDegrades ==
    /\ last.op \in Searches /\ last.cached /\ ~last.written =>
          /\ Success
          /\ last.tokens # << >>
          /\ last.resp.state_id = LastToken
          /\ last.resp.results =
                ProcessResults(last.result, last.resp.mode,
                               last.op = "temporal_search").val
          /\ Key(last.resp.state_id) \notin used
          /\ last.added = {} /\ last.intact
          /\ \A mode \in Modes :
                RestoreChat(redis, TRUE, last.resp.state_id, mode).resp
                   = GeneralResponse(mode, last.resp.state_id, << >>, << >>)
    /\ last.op \in Searches /\ Success /\ last.queries > 0 /\ ~last.cached =>
          /\ EmptyFeedback
          /\ last.resp.state_id = last.state_id
          /\ last.resp.results = << >>

\* C10: a search with results ended while the cache could not be written
C10_Witness ==
    /\ last.op \in Searches /\ last.cached /\ ~last.written
    /\ Truthy(last.result)
    /\ Success

\* C11: while the handler awaits its sub-queries nothing is stored; when it
\* goes on with their results every sub-query has returned, and the
\* results it hands to the fusion or the correlation are those of all of
\* them, in their order; when it ends on an exception it hands on nothing
\* and stores nothing.
C11_BarrierJoin ==
    call.op # "none" =>
        /\ call.pc = "awaiting" => redis = << >> /\ used = {}
        /\ call.pc = "joined" =>
              /\ \A i \in 1..Len(call.tasks) : call.tasks[i].pc = "returned"
              /\ call.handed = [i \in 1..Len(call.tasks) |-> call.tasks[i].res]
        /\ call.pc = "raised" => call.handed = << >> /\ redis = << >>

\* C11: an ensemble search has fused the results of its two members, both
\* with a record, and stored the state
C11_Witness ==
    /\ call.op = "text_search" /\ call.pc = "joined" /\ Len(call.tasks) = 2
    /\ \A i \in 1..2 : Truthy(call.tasks[i].res)
    /\ last.written

\* a search looked at from the inside has just ended
FanOutEnded == call.op # "none" /\ last.op = call.op

\* C12 as stated: a search with a sub-query one of whose backend requests
\* failed, or was answered with a malformed record, ends in an error and
\* stores nothing.
C12_AllOrNothing ==
    /\ FanOutEnded
    /\ \E i \in 1..Len(call.tasks) :
          call.tasks[i].failed # "" \/ call.tasks[i].malformed # ""
    => /\ last.resp.status = "error"
       /\ ~last.cached /\ last.added = {} /\ redis = << >>

\* C12: a sub-query whose request to the similarity backend fails raises,
\* and a search with such a sub-query ends in an error, with nothing fused
\* or correlated, nothing handed to the cache and nothing stored; a
\* sub-query whose request to the lexical backend fails goes on with the
\* empty result.
C12_SimilarityFailureAborts ==
    call.op # "none" =>
        /\ \A i \in 1..Len(call.tasks) :
              /\ call.tasks[i].failed = "milvus" => call.tasks[i].pc = "raised"
              /\ call.tasks[i].failed = "elastic" =>
                    call.tasks[i].pc = "returned" /\ call.tasks[i].res = EmptyDict
        /\ (\E i \in 1..Len(call.tasks) : call.tasks[i].pc = "raised") =>
              /\ call.exc # ""
              /\ call.pc # "joined"
              /\ redis = << >>
              /\ FanOutEnded =>
                    /\ last.resp.status = "error"
                    /\ last.result = PyNone
                    /\ ~last.cached /\ last.added = {}

\* C12: an ensemble search has ended in an error after one member returned
\* records and the request of the other failed
C12_Witness ==
    /\ FanOutEnded /\ Len(call.tasks) = 2
    /\ \E i, j \in 1..2 :
          /\ call.tasks[i].pc = "returned" /\ Truthy(call.tasks[i].res)
          /\ call.tasks[j].failed = "milvus"
    /\ last.resp.status = "error"

\* C13: a text_search or temporal search whose translation fails, or whose
\* translation endpoint is not set, goes on to its search backend with the
\* text as the query and fails only if that search does; when it succeeds
\* its translated texts are the texts it was given.  A text that is handed
\* to _translate_text is a query of a sub-search, so a search that goes on
\* has sent a request more than its translation requests.
C13_TranslationNeverFails ==
    last.op \in {"text_search", "temporal_search"} /\ last.translation \in {"failed", "unset"}
    => /\ last.queries > (IF last.translation = "failed" THEN 1 ELSE 0)
       /\ last.resp.status = "error" => last.resp.detail # "AssertionError"
       /\ Success =>
             \A j \in 1..Len(last.resp.translated_texts) :
                last.resp.translated_texts[j] = "query"

\* the ids of a result set
Ids(result_dict) ==
    IF IsDict(result_dict) THEN {result_dict.v[j][1] : j \in 1..Len(result_dict.v)} ELSE {}

\* the result set of the state a filter found under its handle
Prior == Get(last.read, "results")

\* C14: a filter whose handle resolves to a stored state searches among
\* the ids of that state's result set only, so that the ids of its result
\* are ids of that set, also when the set is empty.
C14_FilterNarrows ==
    last.op = "filter" /\ Success /\ last.read # PyNone =>
        Ids(last.result) \subseteq Ids(Prior)

\* C15: every record of the result of a filter has the score of its
\* lexical hit plus the score the id has in the result set of the state the
\* filter found, nothing being added for an id that set does not have and
\* when the filter found no state; the filter leaves every key of the
\* cache, that of the prior state too, as it found it.
C15_FilterScores ==
    last.op = "filter" /\ Success =>
        /\ \A j \in 1..Len(last.result.v) :
              LET id == last.result.v[j][1]
                  prior_score ==
                     IF last.read # PyNone /\ id \in Ids(Prior)
                        /\ Has(Get(Prior, id), "score")
                     THEN Get(Get(Prior, id), "score").v ELSE 0
              IN Get(last.result.v[j][2], "score").v = Hit(FrameOf(id))[2] + prior_score
        /\ last.intact
        /\ Key(last.state_id) \in DOMAIN redis /\ last.read # PyNone =>
              GetCachedResult(redis, TRUE, last.state_id) = last.read

\* C15: a filter has returned a record whose id has a score in the prior
\* result set
C15_Witness ==
    /\ last.op = "filter" /\ Success /\ last.read # PyNone
    /\ \E j \in 1..Len(last.result.v) :
          /\ last.result.v[j][1] \in Ids(Prior)
          /\ Get(Get(Prior, last.result.v[j][1]), "score").v > 0

\* C16: a text_search with an empty text and a temporal search without a
\* now event end with the ValueError of their validation, having sent no
\* request, minted no token and handed nothing to the cache: the keyspace,
\* the tokens and the suspended requests are as before.
C16_ValidationFirst ==
    [][TextSearchEmpty \/ TemporalSearchInvalid =>
          /\ last'.resp = HTTPException("ValueError")
          /\ last'.queries = 0 /\ last'.translation = "none"
          /\ last'.tokens = << >> /\ ~last'.cached /\ last'.added = {}
          /\ redis' = redis /\ minted' = minted /\ used' = used
          /\ pending' = pending]_vars

\* C16: a request has failed its validation while states were stored and
\* another request was suspended
C16_Witness ==
    /\ last.op \in {"text_search", "temporal_search"}
    /\ last.resp = HTTPException("ValueError") /\ last.queries = 0
    /\ redis # << >>
    /\ Len(pending) > 0

\* C17: a search one of whose sub-queries was answered by the similarity
\* backend with a record whose id does not split into three parts ends in
\* an error.
C17_MalformedIdentifier ==
    /\ FanOutEnded
    /\ \E i \in 1..Len(call.tasks) : call.tasks[i].malformed = "milvus"
    => last.resp.status = "error"

\* C18: fuse of no result set is the empty set; fuse of one result set S
\* has the ids of S and no other, each record with the score
\* alpha * 1/(k + rank + 1) + (1 - alpha) * (its score in S), rank being the
\* 0-based position of the id in S, and with its other fields as in S.
C18_FuseOfOne ==
    call.op = "fuse" /\ call.pc = "returned" =>
        /\ Len(call.results) = 0 => call.value = PyDict(<< >>)
        /\ Len(call.results) = 1 =>
              LET S == call.results[1]
              IN /\ Ids(call.value) = Ids(S)
                 /\ Len(call.value.v) = Len(S.v)
                 /\ \A j \in 1..Len(S.v) :
                       LET record == S.v[j][2]
                           fused == Get(call.value, S.v[j][1])
                       IN /\ 10 * Get(fused, "score").v
                                = call.alphaTenths * (ScoreUnit \div (call.k + (j - 1) + 1))
                                  + (10 - call.alphaTenths) * Get(record, "score").v
                          /\ Len(fused.v) = Len(record.v)
                          /\ \A f \in 1..Len(record.v) :
                                record.v[f][1] # "score" => fused.v[f] = record.v[f]

\* C18: fuse, with the default alpha, has returned the two records of one
\* result set in the other order
C18_Witness ==
    /\ call.op = "fuse" /\ call.pc = "returned"
    /\ call.alphaTenths = DefaultAlphaTenths
    /\ Len(call.results) = 1 /\ Len(call.results[1].v) = 2
    /\ call.value.v[1][1] = call.results[1].v[2][1]

\* the ids of a list of result sets
AllIds(results) == UNION {Ids(results[i]) : i \in 1..Len(results)}

\* the records of a result set, from the first on, have scores in
\* descending order under score
Descending(result_dict, score(_)) ==
    \A i, j \in 1..Len(result_dict.v) :
        i < j => score(result_dict.v[i][1]) >= score(result_dict.v[j][1])

\* C19: with alpha = 1 the score of every record fuse returns is the RRF
\* score of its id and the records are in descending order of the RRF
\* scores; with alpha = 0 the same holds of the CombMNZ scores.
C19_AlphaExtremes ==
    call.op = "fuse" /\ call.pc = "returned" =>
        LET rrf(id) == ReciprocalRankFusion(call.results, 1, id, call.k)
            mnz(id) == CombMnzFusion(call.results, id)
            fused(id) == Get(Get(call.value, id), "score").v
        IN /\ Ids(call.value) = AllIds(call.results)
           /\ call.alphaTenths = 10 =>
                 /\ \A id \in Ids(call.value) : fused(id) = rrf(id)
                 /\ Descending(call.value, rrf)
           /\ call.alphaTenths = 0 =>
                 /\ \A id \in Ids(call.value) : fused(id) = mnz(id)
                 /\ Descending(call.value, mnz)

\* C19: fuse has returned, with alpha = 1, two ids that the CombMNZ scores
\* order the other way round
C19_Witness ==
    /\ call.op = "fuse" /\ call.pc = "returned" /\ call.alphaTenths = 10
    /\ \E a, b \in Ids(call.value) :
          /\ ReciprocalRankFusion(call.results, 1, a, call.k)
                > ReciprocalRankFusion(call.results, 1, b, call.k)
          /\ CombMnzFusion(call.results, a) < CombMnzFusion(call.results, b)

\* the result sets with the record at position j of set s moved to the
\* earlier position q
MovedEarlier(results, s, j, q) ==
    LET records == results[s].v
    IN [results EXCEPT ![s] =
          PyDict([p \in 1..Len(records) |->
                    IF p < q \/ p > j THEN records[p]
                    ELSE IF p = q THEN records[j]
                    ELSE records[p - 1]])]

\* the sum of 1/(k + rank + 1) over the result sets that have the id
RankSum(results, id, k) ==
    LET sum[i \in 0..Len(results)] ==
            IF i = 0 THEN 0
            ELSE sum[i - 1]
                 + (IF id \in Ids(results[i])
                    THEN ScoreUnit
                         \div (k + (CHOOSE p \in 1..Len(results[i].v) :
                                       results[i].v[p][1] = id))
                    ELSE 0)
    IN sum[Len(results)]

\* C20: reciprocal_rank_fusion gives every id of its result sets, and no
\* other, the sum of 1/(k + rank + 1) over the sets that have it, and it
\* gives an id no less when the id stands earlier in one of the sets, the
\* sets being otherwise the same.
C20_RrfMonotone ==
    call.op = "reciprocal_rank_fusion" /\ call.pc = "returned" =>
        /\ Ids(call.value) = AllIds(call.results)
        /\ \A id \in Ids(call.value) :
              Get(call.value, id).v = RankSum(call.results, id, call.k)
        /\ \A s \in 1..Len(call.results) :
              \A j \in 1..Len(call.results[s].v) :
                 \A q \in 1..(j - 1) :
                    LET id == call.results[s].v[j][1]
                    IN ReciprocalRankFusion(MovedEarlier(call.results, s, j, q), 1, id, call.k)
                          >= Get(call.value, id).v

\* C20: reciprocal_rank_fusion has returned the score of an id that is
\* second in one set and first in another, next to an id that one set only
\* has
C20_Witness ==
    /\ call.op = "reciprocal_rank_fusion" /\ call.pc = "returned"
    /\ Len(call.results) = 2
    /\ Len(call.results[1].v) = 2 /\ Len(call.results[2].v) = 1
    /\ call.results[2].v[1][1] = call.results[1].v[2][1]
    /\ Get(call.value, call.results[1].v[2][1]).v
          > Get(call.value, call.results[1].v[1][1]).v

\* the sum of the scores an id has in the result sets that have it
ScoreSum(results, id) ==
    LET sum[i \in 0..Len(results)] ==
            IF i = 0 THEN 0
            ELSE sum[i - 1]
                 + (IF id \in Ids(results[i])
                    THEN Get(Get(results[i], id), "score").v ELSE 0)
    IN sum[Len(results)]

\* the number of result sets that have an id
SetCount(results, id) == Cardinality({i \in 1..Len(results) : id \in Ids(results[i])})

\* two result sets in which one id has the scores 0.8 and 0.6
EightAndSix ==
    << PyDict(<< <<"a", PyDict(<< <<"score", PyNum((8 * ScoreUnit) \div 10)>> >>)>> >>),
       PyDict(<< <<"a", PyDict(<< <<"score", PyNum((6 * ScoreUnit) \div 10)>> >>)>> >>) >>

\* C21: comb_mnz_fusion gives every id of its result sets, and no other,
\* the sum of the scores the id has in the sets that have it times the
\* number of those sets; the scores 0.8 and 0.6 in two sets give 2.8.
C21_CombMnz ==
    call.op = "comb_mnz_fusion" /\ call.pc = "returned" =>
        /\ Ids(call.value) = AllIds(call.results)
        /\ Len(call.value.v) = Cardinality(AllIds(call.results))
        /\ \A id \in Ids(call.value) :
              Get(call.value, id).v
                 = ScoreSum(call.results, id) * SetCount(call.results, id)
        /\ 10 * Get(CombMnzFusionDict(EightAndSix), "a").v = 28 * ScoreUnit

\* C21: comb_mnz_fusion has returned the score of an id that two sets have
\* with different scores, next to an id that one set only has
C21_Witness ==
    /\ call.op = "comb_mnz_fusion" /\ call.pc = "returned"
    /\ Len(call.results) = 2
    /\ \E a, b \in Ids(call.value) :
          /\ SetCount(call.results, a) = 2 /\ SetCount(call.results, b) = 1
          /\ Get(Get(call.results[1], a), "score").v
                # Get(Get(call.results[2], a), "score").v
          /\ 2 * Get(call.value, a).v = 6 * ScoreUnit

\* the last result set that has an id
LastWith(results, id) ==
    CHOOSE i \in 1..Len(results) :
        /\ id \in Ids(results[i])
        /\ \A j \in (i + 1)..Len(results) : id \notin Ids(results[j])

\* C22: fuse of a non-empty list of result sets returns the ids of the
\* sets and no other, each once; the fields of a record other than its
\* score are those of the id's record in the last set that has the id; its
\* score is alpha * rrf + (1 - alpha) * combMNZ of the scores of the sets;
\* and the records are in non-increasing order of score.
C22_FuseOfMany ==
    call.op = "fuse" /\ call.pc = "returned" /\ Len(call.results) > 0 =>
        LET fused(id) == Get(Get(call.value, id), "score").v
        IN /\ Ids(call.value) = AllIds(call.results)
           /\ Len(call.value.v) = Cardinality(AllIds(call.results))
           /\ \A id \in Ids(call.value) :
                 LET record == Get(call.results[LastWith(call.results, id)], id)
                 IN /\ Len(Get(call.value, id).v) = Len(record.v)
                    /\ \A f \in 1..Len(record.v) :
                          record.v[f][1] # "score" => Get(call.value, id).v[f] = record.v[f]
                    /\ 10 * fused(id)
                          = call.alphaTenths * RankSum(call.results, id, call.k)
                            + (10 - call.alphaTenths)
                              * (ScoreSum(call.results, id) * SetCount(call.results, id))
           /\ Descending(call.value, fused)

\* C22: fuse, with the default alpha, has returned two records of different
\* scores, one of an id that the two sets have with different urls
C22_Witness ==
    /\ call.op = "fuse" /\ call.pc = "returned"
    /\ call.alphaTenths = DefaultAlphaTenths
    /\ Len(call.results) = 2 /\ Len(call.value.v) = 2
    /\ Get(call.value.v[1][2], "score") # Get(call.value.v[2][2], "score")
    /\ \E id \in Ids(call.results[1]) \cap Ids(call.results[2]) :
          /\ Get(Get(call.results[1], id), "url") # Get(Get(call.results[2], id), "url")
          /\ Get(Get(call.value, id), "url") = Get(Get(call.results[2], id), "url")

\* C23: a constructor or a setter that is given a k below 1 or an alpha
\* outside [0, 1] raises ValueError and leaves k and alpha as they were, the
\* constructor leaving no engine; every other one raises nothing; and the
\* k of an engine is at least 1 and its alpha is in [0, 1].
C23_ParametersValidated ==
    /\ [](call.op = "engine" /\ call.pc = "ready" =>
            call.k >= 1 /\ AlphaInRange(call.alpha))
    /\ [][/\ \A value \in EngineKs :
                SetK(value) =>
                   /\ call'.raised = (IF value < 1 THEN "ValueError" ELSE "")
                   /\ call'.raised # "" => call'.k = call.k
                   /\ call'.alpha = call.alpha /\ call'.pc = call.pc
          /\ \A value \in EngineAlphas :
                SetAlpha(value) =>
                   /\ call'.raised
                         = (IF value.nan \/ value.tenths < 0 \/ value.tenths > 10
                            THEN "ValueError" ELSE "")
                   /\ call'.raised # "" => call'.alpha = call.alpha
                   /\ call'.k = call.k /\ call'.pc = call.pc
          /\ \A k \in EngineKs, alpha \in EngineAlphas :
                Construct(k, alpha) =>
                   /\ call'.raised
                         = (IF k < 1 \/ alpha.nan \/ alpha.tenths < 0 \/ alpha.tenths > 10
                            THEN "ValueError" ELSE "")
                   /\ call'.raised # "" => call'.pc = "absent"]_vars

\* C23: the k setter of an engine whose k and alpha are not the defaults
\* has raised for the value 0
C23_Witness ==
    /\ call.op = "engine" /\ call.pc = "ready"
    /\ call.did = "k" /\ call.k_arg = 0 /\ call.raised = "ValueError"
    /\ call.k = 2 /\ call.alpha = Tenths(5)

\* the video of the record at position i of a result set
VideoAt(result_dict, i) == Get(result_dict.v[i][2], "video_id").v

\* the position at which a result set has the first record of a video
FirstOf(result_dict, video_id) ==
    CHOOSE i \in 1..Len(result_dict.v) :
        /\ VideoAt(result_dict, i) = video_id
        /\ \A j \in 1..(i - 1) : VideoAt(result_dict, j) # video_id

\* the images of the records of a video, in the order of the result set
ImagesOf(result_dict, video_id) ==
    LET records == SelectSeq(result_dict.v,
                             LAMBDA r : Get(r[2], "video_id").v = video_id)
    IN [j \in 1..Len(records) |->
          [id |-> records[j][1], name |-> records[j][1],
           path |-> Get(records[j][2], "path").v,
           time_in_seconds |-> Get(records[j][2], "time_in_seconds").v,
           score |-> Get(records[j][2], "score").v]]

\* C25: in mode video process_results returns one cluster for every video
\* of the result set, in the order in which the result set has the first
\* record of each, whose image list holds the records of the video in the
\* order of the result set.
C25_VideoProjection ==
    call.op = "process_results" /\ call.pc = "returned" /\ call.mode = Mode_VIDEO =>
        LET clusters == call.value.val
            rd == call.result_dict
        IN /\ call.value.ok
           /\ {clusters[g].cluster_name : g \in 1..Len(clusters)}
                 = {VideoAt(rd, i) : i \in 1..Len(rd.v)}
           /\ \A g, h \in 1..Len(clusters) :
                 g < h => FirstOf(rd, clusters[g].cluster_name)
                             < FirstOf(rd, clusters[h].cluster_name)
           /\ \A g \in 1..Len(clusters) :
                 clusters[g].image_list = ImagesOf(rd, clusters[g].cluster_name)

\* C25: the video projection of a result set that has a record of another
\* video between the two records of a video, the later of which has the
\* higher score and the earlier time
C25_Witness ==
    /\ call.op = "process_results" /\ call.pc = "returned" /\ call.mode = Mode_VIDEO
    /\ Len(call.result_dict.v) = 3 /\ Len(call.value.val) = 2
    /\ VideoAt(call.result_dict, 1) = VideoAt(call.result_dict, 3)
    /\ LET images == call.value.val[1].image_list
       IN /\ Len(images) = 2
          /\ images[1].score < images[2].score
          /\ images[1].time_in_seconds > images[2].time_in_seconds

\* the score sum of the image list of a cluster
RECURSIVE ImageScoreSum(_)
ImageScoreSum(images) ==
    IF Len(images) = 0 THEN 0 ELSE Head(images).score + ImageScoreSum(Tail(images))

\* C24: in mode video_avg process_results returns the clusters of mode
\* video, in non-increasing order of the mean of the scores of their
\* images, clusters of equal means in the order in which the result set has
\* the first record of each.
C24_VideoAvgProjection ==
    call.op = "process_results" /\ call.pc = "returned" /\ call.mode = Mode_VIDEO_AVG =>
        LET clusters == call.value.val
            rd == call.result_dict
            video == ProcessResults(rd, Mode_VIDEO, FALSE).val
            \* mean(g) - mean(h), times the two lengths
            diff(g, h) == ImageScoreSum(clusters[g].image_list) * Len(clusters[h].image_list)
                          - ImageScoreSum(clusters[h].image_list) * Len(clusters[g].image_list)
        IN /\ call.value.ok
           /\ Len(clusters) = Len(video)
           /\ {[clusters[g] EXCEPT !.mode = Mode_VIDEO] : g \in 1..Len(clusters)}
                 = {video[g] : g \in 1..Len(video)}
           /\ \A g, h \in 1..Len(clusters) :
                 g < h =>
                    /\ diff(g, h) >= 0
                    /\ diff(g, h) = 0 =>
                          FirstOf(rd, clusters[g].cluster_name)
                             < FirstOf(rd, clusters[h].cluster_name)

\* C24: the video_avg projection of the records A {V1, 0.9}, C {V2, 0.8},
\* B {V1, 0.7}, in that order, is [V1, V2]
C24_Witness ==
    /\ call.op = "process_results" /\ call.pc = "returned" /\ call.mode = Mode_VIDEO_AVG
    /\ [i \in 1..Len(call.result_dict.v) |->
          <<VideoAt(call.result_dict, i), Get(call.result_dict.v[i][2], "score").v>>]
          = << <<"V1", (9 * ScoreUnit) \div 10>>, <<"V2", (8 * ScoreUnit) \div 10>>,
               <<"V1", (7 * ScoreUnit) \div 10>> >>
    /\ [g \in 1..Len(call.value.val) |-> call.value.val[g].cluster_name] = <<"V1", "V2">>

\* the time and the video of a record of a result set
TimeOf(result_dict, id) == Get(Get(result_dict, id), "time_in_seconds").v
VideoOf(result_dict, id) == Get(Get(result_dict, id), "video_id").v

\* the positions of the records of a result set that have the video of the
\* now record and lie in the window: sign is 1 for before, -1 for after
Qualifying(result_dict, now_id, sign) ==
    {j \in 1..Len(result_dict.v) :
        LET id == result_dict.v[j][1]
            d == sign * (TimeOf(call.now, now_id) - TimeOf(result_dict, id))
        IN /\ VideoOf(result_dict, id) = VideoOf(call.now, now_id)
           /\ 0 <= d /\ d <= call.time_interval}

\* the first of the positions with the highest score
BestOf(result_dict, positions) ==
    CHOOSE j \in positions :
        \A m \in positions :
            LET sj == Get(result_dict.v[j][2], "score").v
                sm == Get(result_dict.v[m][2], "score").v
            IN sm < sj \/ (sm = sj /\ j <= m)

\* the record of the result under key is that of the best of the qualifying
\* records, if there is any
SelectsBest(result_dict, now_id, sign, key) ==
    LET Q == Qualifying(result_dict, now_id, sign)
        selected == Get(Get(call.value, now_id), key)
    IN Q # {} =>
          /\ selected # PyNone
          /\ Get(selected, "id").v = result_dict.v[BestOf(result_dict, Q)][1]
          /\ Get(selected, "score") = Get(result_dict.v[BestOf(result_dict, Q)][2], "score")

\* C26 as stated: for every now record for which a before record
\* qualifies, a before record is selected, the first of those of the
\* highest score, whatever the scores are; and the same for after.
C26_MaxScoreSelected ==
    call.op = "correlate" /\ call.pc = "returned" =>
        \A now_id \in Ids(call.now) :
            /\ SelectsBest(call.before, now_id, 1, "before")
            /\ SelectsBest(call.after, now_id, -1, "after")

\* the record of the result under key is a record of the result set, of
\* the video of the now record and in the window
InsideWindow(result_dict, now_id, sign, key) ==
    LET selected == Get(Get(call.value, now_id), key)
    IN selected # PyNone =>
          LET id == Get(selected, "id").v
              d == sign * (TimeOf(call.now, now_id) - Get(selected, "time_in_seconds").v)
          IN /\ id \in Ids(result_dict)
             /\ Get(selected, "time_in_seconds").v = TimeOf(result_dict, id)
             /\ VideoOf(result_dict, id) = VideoOf(call.now, now_id)
             /\ 0 <= d /\ d <= call.time_interval
             /\ call.time_interval = 0 =>
                   Get(selected, "time_in_seconds").v = TimeOf(call.now, now_id)

\* C27: a selected before record is a record of the before set of the
\* video of its now record and of a time t with 0 <= now.t - t <=
\* time_interval, a selected after record one with 0 <= t - now.t <=
\* time_interval; with a time_interval of 0 the times are equal.
C27_TemporalWindow ==
    call.op = "correlate" /\ call.pc = "returned" =>
        \A now_id \in Ids(call.value) :
            /\ InsideWindow(call.before, now_id, 1, "before")
            /\ InsideWindow(call.after, now_id, -1, "after")

\* C27: with a time_interval of 0 a before record has been selected while
\* the before set has a record of the same video, of another time and of a
\* higher score
C27_Witness ==
    /\ call.op = "correlate" /\ call.pc = "returned" /\ call.time_interval = 0
    /\ \E now_id \in Ids(call.value) :
          LET selected == Get(Get(call.value, now_id), "before")
          IN /\ selected # PyNone
             /\ \E id \in Ids(call.before) :
                   /\ VideoOf(call.before, id) = VideoOf(call.now, now_id)
                   /\ TimeOf(call.before, id) # TimeOf(call.now, now_id)
                   /\ Get(Get(call.before, id), "score").v > Get(selected, "score").v

\* the score of the record of the result under key, 0 if there is none
SelectedScore(now_id, key) ==
    LET selected == Get(Get(call.value, now_id), key)
    IN IF selected = PyNone THEN 0 ELSE Get(selected, "score").v

\* C28: the result has one record for every record of the now set and no
\* other, the score of each is the score of the now record plus the scores
\* of the selected before and after records, and the records are in
\* non-increasing order of score.
C28_CorrelationOutput ==
    call.op = "correlate" /\ call.pc = "returned" =>
        LET combined(id) == Get(Get(call.value, id), "score").v
        IN /\ Ids(call.value) = Ids(call.now)
           /\ Len(call.value.v) = Len(call.now.v)
           /\ \A now_id \in Ids(call.value) :
                 /\ Get(Get(Get(call.value, now_id), "now"), "id").v = now_id
                 /\ combined(now_id)
                       = Get(Get(call.now, now_id), "score").v
                         + SelectedScore(now_id, "before") + SelectedScore(now_id, "after")
           /\ Descending(call.value, combined)

\* C28: of two now records the second has a before and an after record,
\* the first has neither, and the result has the second first
C28_Witness ==
    /\ call.op = "correlate" /\ call.pc = "returned"
    /\ Len(call.now.v) = 2
    /\ call.value.v[1][1] = call.now.v[2][1]
    /\ Get(call.value.v[1][2], "before") # PyNone
    /\ Get(call.value.v[1][2], "after") # PyNone
    /\ Get(call.value.v[2][2], "before") = PyNone
    /\ Get(call.value.v[2][2], "after") = PyNone

\* C29 as stated: a search with one result set, that of the one member of
\* the ensemble or that of the collection it names, returns that result
\* set with the scores of the backend.
C29_FusedOnlyIfMany ==
    call.op = "ensemble_search" /\ call.pc = "returned" /\ Len(call.results) = 1 =>
        call.value = call.results[1]

\* the requests a sub-query may send: one to the similarity backend, none
\* if it has nothing to search for, and one to the lexical backend for an
\* event with filters
MayQuery(task) ==
    (IF task.kind = "visual" /\ ~(task.event.text \/ task.event.image) THEN 0 ELSE 1)
    + (IF task.event.filters THEN 1 ELSE 0)

\* C30: a sub-query sends no more than one request to the similarity
\* backend and, for its filter, one to the lexical backend; one whose
\* request to the similarity backend failed has sent that one request and
\* has raised, one whose request to the lexical backend failed has returned;
\* and the requests of the call are those of its sub-queries.
C30_NoRetry ==
    call.op \in Searches =>
        /\ \A i \in 1..Len(call.tasks) :
              LET task == call.tasks[i]
              IN /\ task.queries <= MayQuery(task)
                 /\ task.failed = "milvus" => task.queries = 1 /\ task.pc = "raised"
                 /\ task.failed = "elastic" => task.pc = "returned"
        /\ FanOutEnded => last.queries = Sent(call.tasks, 1)

\* C30: a search has ended in an error after the request of one sub-query
\* to the lexical backend and that of another to the similarity backend
\* have failed
C30_Witness ==
    /\ FanOutEnded /\ last.resp.status = "error"
    /\ \E i, j \in 1..Len(call.tasks) :
          /\ call.tasks[i].failed = "elastic" /\ call.tasks[i].queries = 2
          /\ call.tasks[j].failed = "milvus" /\ call.tasks[j].queries = 1

\* the image of an event of a temporal record, with a score
ImageOf(event, score) ==
    [id |-> Get(event, "id").v, name |-> Get(event, "id").v, path |-> KEYFRAMES_DIR,
     time_in_seconds |-> Get(event, "time_in_seconds").v, score |-> score]

\* C31: for a temporal state whose results are temporal records
\* process_results returns one cluster for every record, in the order of
\* the results, whose images are that of now, then that of before if there
\* is one, then that of after if there is one, each with the combined
\* score of the record.
C31_TemporalProjection ==
    /\ call.op = "process_state" /\ call.pc = "returned"
    /\ call.temporal /\ call.result_dict \in TemporalSets
    => LET clusters == call.value.val
           rd == call.result_dict
       IN /\ call.value.ok
          /\ Len(clusters) = Len(rd.v)
          /\ \A i \in 1..Len(rd.v) :
                LET record == rd.v[i][2]
                    score == Get(record, "score").v
                    images(key) == IF Get(record, key) = PyNone THEN << >>
                                   ELSE <<ImageOf(Get(record, key), score)>>
                IN /\ clusters[i].cluster_name = rd.v[i][1]
                   /\ clusters[i].image_list
                         = images("now") \o images("before") \o images("after")

\* C31: the projection of two temporal records, the first with a before
\* and an after record, the second with neither
C31_Witness ==
    /\ call.op = "process_state" /\ call.pc = "returned" /\ call.temporal
    /\ call.result_dict \in TemporalSets
    /\ call.value.ok /\ Len(call.value.val) = 2
    /\ Len(call.value.val[1].image_list) = 3
    /\ Len(call.value.val[2].image_list) = 1

\* C32: for a state that is not temporal the MOMENT projection has one
\* cluster for every record, in the order of the results, named by the
\* video of the record, whose only image is that of the record with its id,
\* time and score; and the projection of no results is no cluster, in every
\* mode and for either value of the temporal flag.
C32_MomentProjection ==
    call.op \in {"process_results", "process_state"} /\ call.pc = "returned"
    => LET clusters == call.value.val
           rd == call.result_dict
       IN /\ rd.v = << >> => call.value.ok /\ clusters = << >>
          /\ call.mode = Mode_MOMENT /\ ~call.temporal /\ rd \in ProjectionSets
             => /\ call.value.ok
                /\ Len(clusters) = Len(rd.v)
                /\ \A i \in 1..Len(rd.v) :
                      /\ clusters[i].cluster_name = VideoOf(rd, rd.v[i][1])
                      /\ Len(clusters[i].image_list) = 1
                      /\ clusters[i].image_list[1].id = rd.v[i][1]
                      /\ clusters[i].image_list[1].time_in_seconds
                            = Get(rd.v[i][2], "time_in_seconds").v
                      /\ clusters[i].image_list[1].score = Get(rd.v[i][2], "score").v

\* C32: the MOMENT projection of two records of one video with different
\* scores
C32_Witness ==
    /\ call.op = "process_results" /\ call.pc = "returned" /\ call.mode = Mode_MOMENT
    /\ Len(call.result_dict.v) = 2
    /\ VideoOf(call.result_dict, call.result_dict.v[1][1])
          = VideoOf(call.result_dict, call.result_dict.v[2][1])
    /\ call.value.ok /\ Len(call.value.val) = 2
    /\ call.value.val[1].image_list[1].score # call.value.val[2].image_list[1].score

\* the clusters of a projection, as a set
ClusterSet(clusters) == {clusters[g] : g \in 1..Len(clusters)}

\* the clusters of the video and of the video_avg projection of the results
\* of the call
VideoClusters == ProcessResults(call.result_dict, Mode_VIDEO, FALSE).val
VideoAvgClusters == ProcessResults(call.result_dict, Mode_VIDEO_AVG, FALSE).val

\* a call of process_results for a state that is not temporal in the mode
\* video or video_avg has returned
VideoProjected ==
    /\ call.op \in {"process_results", "process_state"} /\ call.pc = "returned"
    /\ ~call.temporal /\ call.result_dict \in ProjectionSets
    /\ call.mode \in {Mode_VIDEO, Mode_VIDEO_AVG}

\* C36, as stated: the video and the video_avg projection of the same
\* results are the same set of clusters.
C36_SameClusters ==
    VideoProjected => ClusterSet(VideoClusters) = ClusterSet(VideoAvgClusters)

\* C36: every id of the results is in the images of exactly one cluster of
\* the video and of the video_avg projection, and once; no cluster is
\* without images, no two clusters have the same name and every image of a
\* cluster is of a record of the video that names the cluster; the two
\* projections of the same results are the same set of clusters but for
\* the mode of each cluster, which is the mode asked for.
C36_VideoPartition ==
    VideoProjected =>
        LET clusters == call.value.val
            rd == call.result_dict
            places(id) == {<<g, j>> \in (1..Len(clusters)) \X (1..Len(rd.v)) :
                              /\ j <= Len(clusters[g].image_list)
                              /\ clusters[g].image_list[j].id = id}
        IN /\ call.value.ok
           /\ \A i \in 1..Len(rd.v) : Cardinality(places(rd.v[i][1])) = 1
           /\ \A g \in 1..Len(clusters) :
                 /\ clusters[g].image_list # << >>
                 /\ clusters[g].mode = call.mode
                 /\ \A j \in 1..Len(clusters[g].image_list) :
                       /\ clusters[g].image_list[j].id \in Ids(rd)
                       /\ VideoOf(rd, clusters[g].image_list[j].id) = clusters[g].cluster_name
           /\ \A g, h \in 1..Len(clusters) :
                 clusters[g].cluster_name = clusters[h].cluster_name => g = h
           /\ {[c EXCEPT !.mode = Mode_VIDEO] : c \in ClusterSet(VideoAvgClusters)}
                 = ClusterSet(VideoClusters)

\* C36: the video_avg projection of three records of two videos, whose
\* clusters are not in the order of the video projection
C36_Witness ==
    /\ VideoProjected /\ call.mode = Mode_VIDEO_AVG
    /\ Len(call.result_dict.v) = 3
    /\ call.value.ok /\ Len(call.value.val) = 2
    /\ call.value.val[1].cluster_name = VideoClusters[2].cluster_name

StoredState(key) ==
    LET e == JsonLoads(redis[key]) IN IF e.ok THEN e.val ELSE PyStr(redis[key][1].v)

\* the records of a result set have the shape the temporal flag stands for
ShapeAgrees(state) ==
    LET results == Get(state, "results")
    IN \A i \in 1..Len(results.v) :
          IF Truthy(Get(state, "temporal"))
          THEN TemporalShape(results.v[i][1], results.v[i][2])
          ELSE HasAll(results.v[i][2], MetadataKeys)

\* C33: in every state of the cache that holds a temporal flag and a result
\* set the shape of the records is that of the flag, and the projection of
\* restore_chat and of change_clustering_mode succeeds in every mode.
C33_FlagAgreesWithShape ==
    \A key \in DOMAIN redis :
        LET state == StoredState(key)
        IN IsDict(state) /\ Has(state, "temporal") /\ IsDict(Get(state, "results")) =>
              /\ ShapeAgrees(state)
              /\ \A m \in Modes : Projection(state, m).ok

\* C34: a temporal search that succeeds has read no state from the cache,
\* and its clusters are the projection of the outcome of its own event
\* searches.
C34_OwnSubSearches ==
    last.op = "temporal_search" /\ Success =>
        /\ last.read = PyNone
        /\ last.resp.results = ProcessResults(last.result, Mode_VIDEO, TRUE).val

\* the suspended filter i ends, its lexical request having failed, on a
\* cache that takes the write
FilterFails(i) ==
    \E mode \in Modes :
        FilterFinish(i, mode,
                     Run(ApplyFilters(CurrentResultDict(pending[i].cached), ApiError), 1),
                     TRUE)

InListedOrder ==
    LET res(i) == call.tasks[i].res
    IN IF call.op = "temporal_search"
       THEN Correlate(res(1),
                      IF call.before THEN res(2) ELSE EmptyDict,
                      IF ~call.after THEN EmptyDict
                      ELSE IF call.before THEN res(3) ELSE res(2),
                      CHOOSE time_interval \in TimeIntervals : TRUE)
       ELSE IF Len(call.tasks) = 1 THEN Ok(res(1))
       ELSE Fuse(<<res(1), res(2)>>, DefaultK, DefaultAlphaTenths)

C39_InputsAfterFuse ==
    call.op = "fuse" /\ call.pc = "returned" =>
        /\ Len(call.after) = Len(call.results)
        /\ \A j \in 1..Len(call.results) :
              /\ Keys(call.after[j]) = Keys(call.results[j])
              /\ \A i \in 1..Len(call.results[j].v) :
                    LET id == call.results[j].v[i][1]
                        old == call.results[j].v[i][2]
                        new == call.after[j].v[i][2]
                    IN IF j # LastWith(call.results, id) THEN new = old
                       ELSE /\ Keys(new) = Keys(old)
                            /\ \A f \in 1..Len(old.v) :
                                  old.v[f][1] # "score" => new.v[f] = old.v[f]
                            /\ 10 * Get(new, "score").v
                                  = call.alphaTenths * RankSum(call.results, id, call.k)
                                    + (10 - call.alphaTenths)
                                      * (ScoreSum(call.results, id)
                                         * SetCount(call.results, id))

\* C39: fuse of two sets that have one id, the first before another id, has
\* left the first set's record of that id as it was and has written a new
\* score into the second set's
C39_Witness ==
    /\ call.op = "fuse" /\ call.pc = "returned" /\ Len(call.results) = 2
    /\ Len(call.results[1].v) = 2 /\ Len(call.results[2].v) = 1
    /\ call.results[1].v[1][1] = call.results[2].v[1][1]
    /\ call.after[1].v[1] = call.results[1].v[1]
    /\ call.after[1].v[2] # call.results[1].v[2]
    /\ Get(call.after[2].v[1][2], "score") # Get(call.results[2].v[1][2], "score")

=============================================================================
